---- MODULE Spec2Model ----
(***************************************************************************)
(* DreamCapture backend: the content store (dreams, moments), the request  *)
(* handlers that create, read and delete rows, the periodic visibility     *)
(* sweep, the background enrichment tasks and the resonance scorer.        *)
(*                                                                         *)
(* Time is in seconds since an epoch that falls on 00:00 UTC.  Each        *)
(* handler is cut at its awaits: one action per stretch of code that runs  *)
(* between two suspension points and touches shared state.                 *)
(***************************************************************************)
EXTENDS Integers, Sequences, FiniteSets, TLC

VARIABLES
    now,        \* the wall clock, datetime.now(timezone.utc)
    aiEnabled,  \* settings.ENABLE_AI_FEATURES
    dreams,     \* table "dreams": id -> row
    moments,    \* table "moments": id -> row
    nextId,     \* the next fresh primary key (uuid4 never repeats)
    req,        \* the request handlers: slot -> frame (idle, running, or answered)
    tasks,      \* background tasks scheduled with BackgroundTasks.add_task
    channel,    \* messages published on the Redis channel "moments_stream"
    sweep,      \* the frame of cleanup_expired_content, its return value included
    dreamLog,   \* history: every dream row ever committed by create_dream
    overlap,    \* history: most create requests of one owner and kind in flight at once
    sc,         \* the frame of one call of AIService.calculate_resonance
    manager,    \* ConnectionManager.active_connections
    listener,   \* the frame of the redis_listener task, its broadcast included
    sockets,    \* the WebSocket connections: peer state, sends tried, events received
    fan,        \* history: the live set when each event was published and broadcast
    moderation, \* ContentModerator: its client, and whether the API answers
    worker,     \* the frame of the background task that is running, if any
    momentTtl,  \* settings.MOMENT_TTL_SECONDS
    account,    \* the row of one user in table "users"
    login       \* the login handlers for that user: slot -> frame

vars == <<now, aiEnabled, dreams, moments, nextId, req, tasks, channel, sweep,
          dreamLog, overlap, sc,
          manager, listener, sockets, fan, moderation, worker, momentTtl,
          account, login>>

----------------------------------------------------------------------------
(* Program constants *)

HOUR == 3600
DAY == 86400
MOMENT_TTL_SECONDS == 60
DreamTiers == {1, 7, 30}

(* Bounds of the model.  settings.MAX_DREAMS_PER_DAY and                  *)
(* settings.MAX_MOMENTS_PER_HOUR are read from the environment (defaults  *)
(* 10 and 20); the model runs the handlers with small configured limits.  *)

MAX_DREAMS_PER_DAY == 2
MAX_MOMENTS_PER_HOUR == 2
LifeMaxIds == 2
LifeMaxViews == 1
QuotaMaxIds == 4
RaceMaxIds == 3
MaxSlots == 2
MaxTags == 6
FanMaxIds == 2
CreateMaxIds == 3

Users == {"u1", "u2"}
Reqs == 1..MaxSlots

NULL == "NULL"
Max(a, b) == IF a >= b THEN a ELSE b
Min(a, b) == IF a <= b THEN a ELSE b

----------------------------------------------------------------------------
(* Rows *)

NewDream(u, pub, ttl, t) ==
    [user_id |-> u, is_public |-> pub, ttl_days |-> ttl, is_visible |-> TRUE,
     created_at |-> t, expires_at |-> t + ttl * DAY, view_count |-> 0,
     ai_analysis |-> NULL, ai_tags |-> NULL, generated_image_url |-> NULL]

NewMomentFloorsTtl(u, cap, t) ==
    [user_id |-> u, caption |-> cap, is_visible |-> TRUE,
     created_at |-> t, expires_at |-> t + Max(momentTtl, 1), view_count |-> 0,
     ai_tags |-> NULL]

NewMoment(u, cap, t) ==
    [user_id |-> u, caption |-> cap, is_visible |-> TRUE,
     created_at |-> t, expires_at |-> t + momentTtl, view_count |-> 0,
     ai_tags |-> NULL]

Insert(table, id, row) == table @@ (id :> row)
Remove(table, id) == [i \in DOMAIN table \ {id} |-> table[i]]

(* Request frames.  An answered frame keeps the response until the       *)
(* connection is done with it.                                            *)

(* models.py 20-26: a user row as register stores it.  locked_until is   *)
(* <<>> for NULL and <<t>> for an instant.                                *)
NewUser == [is_active |-> TRUE, failed_login_attempts |-> 0, locked_until |-> <<>>]

LoginIdle ==
    [pc |-> "idle", known |-> TRUE, failed_login_attempts |-> 0,
     locked_until |-> <<>>, status |-> 0]

IdleFrame ==
    [pc |-> "idle", op |-> "none", user |-> "u1", ttl |-> 1, pub |-> TRUE,
     caption |-> NULL, id |-> 0, seen |-> 0, status |-> 0,
     skip |-> 0, limit |-> 0, items |-> <<>>]

Free(r) == req[r].pc = "idle"
Begin(op, u) == [IdleFrame EXCEPT !.op = op, !.user = u]
Answer(op, u, id, code) ==
    [IdleFrame EXCEPT !.pc = "done", !.op = op, !.user = u, !.id = id, !.status = code]

Return(r) ==
    /\ req[r].pc = "done"
    /\ req' = [req EXCEPT ![r] = IdleFrame]
    /\ UNCHANGED <<now, aiEnabled, dreams, moments, nextId, tasks, channel, sweep, sc,
                   manager, listener, sockets, moderation, worker, momentTtl,
                   account, login>>

----------------------------------------------------------------------------
(* The clock.  The environment moves it forward to any later instant of T. *)

Tick(T) ==
    /\ \E t \in T : t > now /\ now' = t
    /\ UNCHANGED <<aiEnabled, dreams, moments, nextId, req, tasks, channel, sweep, sc,
                   manager, listener, sockets, moderation, worker, momentTtl,
                   account, login>>

----------------------------------------------------------------------------
(* Quota windows *)

TodayStartRolling(t) == t - DAY
TodayStart(t) == t - (t % DAY)
HourAgo(t) == t - HOUR

TodayDreams(u, t) ==
    {id \in DOMAIN dreams :
        dreams[id].user_id = u /\ dreams[id].created_at >= TodayStart(t)}

RecentMomentsStrictlyInside(u, t) ==
    {id \in DOMAIN moments :
        moments[id].user_id = u /\ moments[id].created_at > HourAgo(t)}
RecentMomentsVisible(u, t) ==
    {id \in DOMAIN moments :
        /\ moments[id].user_id = u /\ moments[id].created_at >= HourAgo(t)
        /\ moments[id].is_visible}
RecentMoments(u, t) ==
    {id \in DOMAIN moments :
        moments[id].user_id = u /\ moments[id].created_at >= HourAgo(t)}

DreamLimitReachedAboveLimit(n) == n > MAX_DREAMS_PER_DAY
DreamLimitReached(n) == n >= MAX_DREAMS_PER_DAY
MomentLimitReached(n) == n >= MAX_MOMENTS_PER_HOUR

NormalizeTtlKeepsAny(ttl) == ttl
NormalizeTtl(ttl) == IF ttl \in DreamTiers THEN ttl ELSE 1

----------------------------------------------------------------------------
(* POST /dreams *)

CreateDreamModerateStoresFirst(r, u, ttl, pub, flagged) ==
    /\ Free(r)
    /\ IF flagged
       THEN /\ dreams' = Insert(dreams, nextId, NewDream(u, pub, NormalizeTtl(ttl), now))
            /\ nextId' = nextId + 1
            /\ req' = [req EXCEPT ![r] = Answer("create_dream", u, 0, 400)]
       ELSE /\ req' = [req EXCEPT ![r] =
                         [Begin("create_dream", u) EXCEPT
                             !.pc = "quota", !.ttl = ttl, !.pub = pub]]
            /\ UNCHANGED <<dreams, nextId>>
    /\ UNCHANGED <<now, aiEnabled, moments, tasks, channel, sweep, sc,
                   manager, listener, sockets, moderation, worker, momentTtl,
                   account, login>>

(* dreams.py 51-60: the request arrives and its text is moderated. *)
CreateDreamModerate(r, u, ttl, pub, flagged) ==
    /\ Free(r)
    /\ req' = [req EXCEPT ![r] =
                 IF flagged
                 THEN Answer("create_dream", u, 0, 400)
                 ELSE [Begin("create_dream", u) EXCEPT
                          !.pc = "quota", !.ttl = ttl, !.pub = pub]]
    /\ UNCHANGED <<now, aiEnabled, dreams, moments, nextId, tasks, channel, sweep, sc,
                   manager, listener, sockets, moderation, worker, momentTtl,
                   account, login>>

(* dreams.py 62-78: count today's rows of the owner. *)
CreateDreamQuotaSchedulesFirst(r) ==
    /\ req[r].pc = "quota" /\ req[r].op = "create_dream"
    /\ req' = [req EXCEPT ![r] =
                 IF DreamLimitReached(Cardinality(TodayDreams(req[r].user, now)))
                 THEN Answer("create_dream", req[r].user, 0, 429)
                 ELSE [req[r] EXCEPT !.pc = "insert"]]
    /\ tasks' = IF DreamLimitReached(Cardinality(TodayDreams(req[r].user, now)))
                THEN tasks
                ELSE tasks \cup {[kind |-> "dream", id |-> nextId]}
    /\ UNCHANGED <<now, aiEnabled, dreams, moments, nextId, channel, sweep, sc,
                   manager, listener, sockets, moderation, worker, momentTtl,
                   account, login>>

CreateDreamQuota(r) ==
    /\ req[r].pc = "quota" /\ req[r].op = "create_dream"
    /\ req' = [req EXCEPT ![r] =
                 IF DreamLimitReached(Cardinality(TodayDreams(req[r].user, now)))
                 THEN Answer("create_dream", req[r].user, 0, 429)
                 ELSE [req[r] EXCEPT !.pc = "insert"]]
    /\ UNCHANGED <<now, aiEnabled, dreams, moments, nextId, tasks, channel, sweep, sc,
                   manager, listener, sockets, moderation, worker, momentTtl,
                   account, login>>

(* dreams.py 80-115: build the row, commit it, schedule the enrichment. *)
CreateDreamInsert(r) ==
    /\ req[r].pc = "insert" /\ req[r].op = "create_dream"
    /\ dreams' = Insert(dreams, nextId,
                        NewDream(req[r].user, req[r].pub, NormalizeTtl(req[r].ttl), now))
    /\ nextId' = nextId + 1
    /\ tasks' = IF aiEnabled
                THEN tasks \cup {[kind |-> "dream", id |-> nextId]}
                ELSE tasks
    /\ req' = [req EXCEPT ![r] = Answer("create_dream", req[r].user, nextId, 201)]
    /\ UNCHANGED <<now, aiEnabled, moments, channel, sweep, sc,
                   manager, listener, sockets, moderation, worker, momentTtl,
                   account, login>>

DeleteDreamByAnyone(r, u, id) ==
    /\ Free(r)
    /\ IF id \notin DOMAIN dreams
       THEN /\ req' = [req EXCEPT ![r] = Answer("delete_dream", u, id, 404)]
            /\ UNCHANGED dreams
       ELSE /\ req' = [req EXCEPT ![r] = Answer("delete_dream", u, id, 204)]
            /\ dreams' = Remove(dreams, id)
    /\ UNCHANGED <<now, aiEnabled, moments, nextId, tasks, channel, sweep, sc,
                   manager, listener, sockets, moderation, worker, momentTtl,
                   account, login>>

(* dreams.py 203-221 *)
DeleteDream(r, u, id) ==
    /\ Free(r)
    /\ IF id \notin DOMAIN dreams
       THEN /\ req' = [req EXCEPT ![r] = Answer("delete_dream", u, id, 404)]
            /\ UNCHANGED dreams
       ELSE IF dreams[id].user_id # u
       THEN /\ req' = [req EXCEPT ![r] = Answer("delete_dream", u, id, 403)]
            /\ UNCHANGED dreams
       ELSE /\ req' = [req EXCEPT ![r] = Answer("delete_dream", u, id, 204)]
            /\ dreams' = Remove(dreams, id)
    /\ UNCHANGED <<now, aiEnabled, moments, nextId, tasks, channel, sweep, sc,
                   manager, listener, sockets, moderation, worker, momentTtl,
                   account, login>>

GetDreamLoadOwnerSees(r, u, id) ==
    /\ Free(r)
    /\ req' = [req EXCEPT ![r] =
                 IF id \notin DOMAIN dreams
                 THEN Answer("get_dream", u, id, 404)
                 ELSE IF dreams[id].expires_at <= now
                 THEN Answer("get_dream", u, id, 410)
                 ELSE IF ~dreams[id].is_public /\ dreams[id].user_id # u
                 THEN Answer("get_dream", u, id, 403)
                 ELSE [Begin("get_dream", u) EXCEPT
                          !.pc = "commit", !.id = id, !.seen = dreams[id].view_count]]
    /\ UNCHANGED <<now, aiEnabled, dreams, moments, nextId, tasks, channel, sweep, sc,
                   manager, listener, sockets, moderation, worker, momentTtl,
                   account, login>>

GetDreamLoadHidesSwept(r, u, id) ==
    /\ Free(r)
    /\ req' = [req EXCEPT ![r] =
                 IF id \notin DOMAIN dreams \/ ~dreams[id].is_visible
                 THEN Answer("get_dream", u, id, 404)
                 ELSE IF dreams[id].expires_at <= now
                 THEN Answer("get_dream", u, id, 410)
                 ELSE IF ~dreams[id].is_public
                 THEN Answer("get_dream", u, id, 403)
                 ELSE [Begin("get_dream", u) EXCEPT
                          !.pc = "commit", !.id = id, !.seen = dreams[id].view_count]]
    /\ UNCHANGED <<now, aiEnabled, dreams, moments, nextId, tasks, channel, sweep, sc,
                   manager, listener, sockets, moderation, worker, momentTtl,
                   account, login>>

(* dreams.py 174-194: load the row and run the checks.  u is the caller, *)
(* whom the handler never looks at.                                       *)
GetDreamLoad(r, u, id) ==
    /\ Free(r)
    /\ req' = [req EXCEPT ![r] =
                 IF id \notin DOMAIN dreams
                 THEN Answer("get_dream", u, id, 404)
                 ELSE IF dreams[id].expires_at <= now
                 THEN Answer("get_dream", u, id, 410)
                 ELSE IF ~dreams[id].is_public
                 THEN Answer("get_dream", u, id, 403)
                 ELSE [Begin("get_dream", u) EXCEPT
                          !.pc = "commit", !.id = id, !.seen = dreams[id].view_count]]
    /\ UNCHANGED <<now, aiEnabled, dreams, moments, nextId, tasks, channel, sweep, sc,
                   manager, listener, sockets, moderation, worker, momentTtl,
                   account, login>>

(* dreams.py 196-200: UPDATE dreams SET view_count = <loaded value + 1>. *)
(* A row deleted since the load matches nothing and the flush raises.    *)
GetDreamCommit(r) ==
    /\ req[r].pc = "commit" /\ req[r].op = "get_dream"
    /\ IF req[r].id \in DOMAIN dreams
       THEN /\ dreams' = [dreams EXCEPT ![req[r].id].view_count = req[r].seen + 1]
            /\ req' = [req EXCEPT ![r] = Answer("get_dream", req[r].user, req[r].id, 200)]
       ELSE /\ req' = [req EXCEPT ![r] = Answer("get_dream", req[r].user, req[r].id, 500)]
            /\ UNCHANGED dreams
    /\ UNCHANGED <<now, aiEnabled, moments, nextId, tasks, channel, sweep, sc,
                   manager, listener, sockets, moderation, worker, momentTtl,
                   account, login>>

----------------------------------------------------------------------------
(* POST /moments *)

HasCaption(cap) == cap \notin {NULL, ""}

(* moments.py 46-55: the caption is moderated only when there is one. *)
CreateMomentModerate(r, u, cap, flagged) ==
    /\ Free(r)
    /\ req' = [req EXCEPT ![r] =
                 IF HasCaption(cap) /\ flagged
                 THEN Answer("create_moment", u, 0, 400)
                 ELSE [Begin("create_moment", u) EXCEPT
                          !.pc = "quota", !.caption = cap]]
    /\ UNCHANGED <<now, aiEnabled, dreams, moments, nextId, tasks, channel, sweep, sc,
                   manager, listener, sockets, moderation, worker, momentTtl,
                   account, login>>

(* moments.py 57-73: count the owner's rows of the last hour. *)
CreateMomentQuota(r) ==
    /\ req[r].pc = "quota" /\ req[r].op = "create_moment"
    /\ req' = [req EXCEPT ![r] =
                 IF MomentLimitReached(Cardinality(RecentMoments(req[r].user, now)))
                 THEN Answer("create_moment", req[r].user, 0, 429)
                 ELSE [req[r] EXCEPT !.pc = "insert"]]
    /\ UNCHANGED <<now, aiEnabled, dreams, moments, nextId, tasks, channel, sweep, sc,
                   manager, listener, sockets, moderation, worker, momentTtl,
                   account, login>>

CreateMomentInsertPublishesFirst(r) ==
    /\ req[r].pc = "insert" /\ req[r].op = "create_moment"
    /\ channel' = Append(channel, nextId)
    /\ nextId' = nextId + 1
    /\ req' = [req EXCEPT ![r].pc = "publish", ![r].id = nextId]
    /\ UNCHANGED <<now, aiEnabled, dreams, moments, tasks, sweep, sc,
                   manager, listener, sockets, moderation, worker, momentTtl,
                   account, login>>

(* moments.py 75-91: build the row and commit it. *)
CreateMomentInsert(r) ==
    /\ req[r].pc = "insert" /\ req[r].op = "create_moment"
    /\ moments' = Insert(moments, nextId, NewMoment(req[r].user, req[r].caption, now))
    /\ nextId' = nextId + 1
    /\ req' = [req EXCEPT ![r].pc = "publish", ![r].id = nextId]
    /\ UNCHANGED <<now, aiEnabled, dreams, tasks, channel, sweep, sc,
                   manager, listener, sockets, moderation, worker, momentTtl,
                   account, login>>

(* moments.py 93-109: publish the id, schedule the enrichment, answer.   *)
(* A publish that raises ends the handler with 500, the row committed.   *)
CreateMomentPublish(r, ok) ==
    /\ req[r].pc = "publish" /\ req[r].op = "create_moment"
    /\ IF ok
       THEN /\ channel' = Append(channel, req[r].id)
            /\ tasks' = IF aiEnabled /\ HasCaption(req[r].caption)
                        THEN tasks \cup {[kind |-> "moment", id |-> req[r].id]}
                        ELSE tasks
            /\ req' = [req EXCEPT ![r] =
                         Answer("create_moment", req[r].user, req[r].id, 201)]
       ELSE /\ req' = [req EXCEPT ![r] =
                         Answer("create_moment", req[r].user, req[r].id, 500)]
            /\ UNCHANGED <<channel, tasks>>
    /\ UNCHANGED <<now, aiEnabled, dreams, moments, nextId, sweep, sc,
                   manager, listener, sockets, moderation, worker, momentTtl,
                   account, login>>

(* moments.py 139-155 *)
GetMomentLoad(r, u, id) ==
    /\ Free(r)
    /\ req' = [req EXCEPT ![r] =
                 IF id \notin DOMAIN moments
                 THEN Answer("get_moment", u, id, 404)
                 ELSE IF moments[id].expires_at <= now
                 THEN Answer("get_moment", u, id, 410)
                 ELSE [Begin("get_moment", u) EXCEPT
                          !.pc = "commit", !.id = id, !.seen = moments[id].view_count]]
    /\ UNCHANGED <<now, aiEnabled, dreams, moments, nextId, tasks, channel, sweep, sc,
                   manager, listener, sockets, moderation, worker, momentTtl,
                   account, login>>

(* moments.py 157-161: UPDATE moments SET view_count = <loaded value + 1>. *)
GetMomentCommit(r) ==
    /\ req[r].pc = "commit" /\ req[r].op = "get_moment"
    /\ moments' = [moments EXCEPT ![req[r].id].view_count = req[r].seen + 1]
    /\ req' = [req EXCEPT ![r] = Answer("get_moment", req[r].user, req[r].id, 200)]
    /\ UNCHANGED <<now, aiEnabled, dreams, nextId, tasks, channel, sweep, sc,
                   manager, listener, sockets, moderation, worker, momentTtl,
                   account, login>>

----------------------------------------------------------------------------
(* Background enrichment.  The ORM flushes only the attributes the task   *)
(* assigned, so the UPDATE names these columns and no other.              *)

Analyses == {"mock", "gpt"}
Images == {NULL, "local", "upstream"}

AnalysisTags(a) == IF a = "mock" THEN "tags(mock)" ELSE "tags(gpt)"
AnalyzeMoment(cap) == IF HasCaption(cap) THEN "kw,photo,moment" ELSE "photo,moment,now"

DreamWriteBackWholeRow(row, a, img) ==
    [row EXCEPT !.ai_analysis = a, !.ai_tags = AnalysisTags(a),
                !.generated_image_url = img, !.is_visible = TRUE]

DreamWriteBackAppends(row, a, img) ==
    [row EXCEPT !.ai_analysis = a,
                !.ai_tags = IF row.ai_tags = NULL THEN AnalysisTags(a)
                            ELSE "tags(old),tags(new)",
                !.generated_image_url = img]

DreamWriteBack(row, a, img) ==
    [row EXCEPT !.ai_analysis = a, !.ai_tags = AnalysisTags(a),
                !.generated_image_url = img]

MomentWriteBack(row, tags) == [row EXCEPT !.ai_tags = tags]

(* dreams.py 17-39.  raised: an exception anywhere in the task (rollback). *)
ProcessDreamAi(id, a, img, raised) ==
    /\ [kind |-> "dream", id |-> id] \in tasks
    /\ tasks' = tasks \ {[kind |-> "dream", id |-> id]}
    /\ dreams' = IF ~raised /\ id \in DOMAIN dreams
                 THEN [dreams EXCEPT ![id] = DreamWriteBack(dreams[id], a, img)]
                 ELSE dreams
    /\ UNCHANGED <<now, aiEnabled, moments, nextId, req, channel, sweep, sc,
                   manager, listener, sockets, moderation, worker, momentTtl,
                   account, login>>

(* moments.py 18-33 *)
ProcessMomentAi(id, raised) ==
    /\ [kind |-> "moment", id |-> id] \in tasks
    /\ tasks' = tasks \ {[kind |-> "moment", id |-> id]}
    /\ moments' = IF ~raised /\ id \in DOMAIN moments
                  THEN [moments EXCEPT ![id] =
                           MomentWriteBack(moments[id], AnalyzeMoment(moments[id].caption))]
                  ELSE moments
    /\ UNCHANGED <<now, aiEnabled, dreams, nextId, req, channel, sweep, sc,
                   manager, listener, sockets, moderation, worker, momentTtl,
                   account, login>>

(* generate_daily_content.py 47-99: a dream of the system user, created   *)
(* without a quota check and enriched inline in a second commit.          *)
GenerateDemoDream(ttl, a, img, enriched) ==
    /\ dreams' = Insert(dreams, nextId,
                    IF enriched
                    THEN DreamWriteBack(NewDream("DreamCapture_AI", TRUE, ttl, now), a, img)
                    ELSE NewDream("DreamCapture_AI", TRUE, ttl, now))
    /\ nextId' = nextId + 1
    /\ UNCHANGED <<now, aiEnabled, moments, req, tasks, channel, sweep, sc,
                   manager, listener, sockets, moderation, worker, momentTtl,
                   account, login>>

----------------------------------------------------------------------------
(* cleanup_expired.py: the sweep.  Its UPDATEs become visible to other    *)
(* sessions at its commit.                                                *)

SweepIdle ==
    [pc |-> "idle", now |-> 0, moments |-> {}, dreams |-> {}, status |-> "none",
     hidden_moments |-> 0, hidden_dreams |-> 0]

SweepDueStrictlyPast(table, t) ==
    {id \in DOMAIN table : table[id].expires_at < t /\ table[id].is_visible}

SweepDueAnyFlag(table, t) == {id \in DOMAIN table : table[id].expires_at <= t}
SweepDueAnyExpiry(table, t) == {id \in DOMAIN table : table[id].is_visible}
SweepDue(table, t) ==
    {id \in DOMAIN table : table[id].expires_at <= t /\ table[id].is_visible}

HideRemoves(table, ids) == [i \in DOMAIN table \ ids |-> table[i]]

Hide(table, ids) ==
    [id \in DOMAIN table |->
        IF id \in ids THEN [table[id] EXCEPT !.is_visible = FALSE] ELSE table[id]]

(* line 38: read the clock. *)
SweepStart ==
    /\ sweep.pc = "idle"
    /\ sweep' = [SweepIdle EXCEPT !.pc = "moments", !.now = now]
    /\ UNCHANGED <<now, aiEnabled, dreams, moments, nextId, req, tasks, channel, sc,
                   manager, listener, sockets, moderation, worker, momentTtl,
                   account, login>>

SweepSelectMomentsCommits ==
    /\ sweep.pc = "moments"
    /\ sweep' = [sweep EXCEPT !.pc = "dreams", !.moments = SweepDue(moments, sweep.now)]
    /\ moments' = Hide(moments, SweepDue(moments, sweep.now))
    /\ UNCHANGED <<now, aiEnabled, dreams, nextId, req, tasks, channel, sc,
                   manager, listener, sockets, moderation, worker, momentTtl,
                   account, login>>

(* lines 42-51 *)
SweepSelectMoments ==
    /\ sweep.pc = "moments"
    /\ sweep' = [sweep EXCEPT !.pc = "dreams", !.moments = SweepDue(moments, sweep.now)]
    /\ UNCHANGED <<now, aiEnabled, dreams, moments, nextId, req, tasks, channel, sc,
                   manager, listener, sockets, moderation, worker, momentTtl,
                   account, login>>

(* lines 54-63 *)
SweepSelectDreams ==
    /\ sweep.pc = "dreams"
    /\ sweep' = [sweep EXCEPT !.pc = "commit", !.dreams = SweepDue(dreams, sweep.now)]
    /\ UNCHANGED <<now, aiEnabled, dreams, moments, nextId, req, tasks, channel, sc,
                   manager, listener, sockets, moderation, worker, momentTtl,
                   account, login>>

(* lines 65-73.  A selected dream deleted meanwhile matches no row: the  *)
(* flush raises, lines 75-78 roll back and re-raise.                     *)
SweepCommit ==
    /\ sweep.pc = "commit"
    /\ IF sweep.dreams \subseteq DOMAIN dreams
       THEN /\ moments' = Hide(moments, sweep.moments)
            /\ dreams' = Hide(dreams, sweep.dreams)
            /\ sweep' = [SweepIdle EXCEPT
                            !.pc = "done", !.status = "ok", !.now = sweep.now,
                            !.hidden_moments = Cardinality(sweep.moments),
                            !.hidden_dreams = Cardinality(sweep.dreams)]
       ELSE /\ sweep' = [SweepIdle EXCEPT !.pc = "done", !.status = "error"]
            /\ UNCHANGED <<dreams, moments>>
    /\ UNCHANGED <<now, aiEnabled, nextId, req, tasks, channel, sc,
                   manager, listener, sockets, moderation, worker, momentTtl,
                   account, login>>

(* lines 75-78: a statement of the sweep raises. *)
SweepFail ==
    /\ sweep.pc \in {"moments", "dreams", "commit"}
    /\ sweep' = [SweepIdle EXCEPT !.pc = "done", !.status = "error"]
    /\ UNCHANGED <<now, aiEnabled, dreams, moments, nextId, req, tasks, channel, sc,
                   manager, listener, sockets, moderation, worker, momentTtl,
                   account, login>>

(* The process ends; cron starts the next one. *)
SweepExit ==
    /\ sweep.pc = "done"
    /\ sweep' = SweepIdle
    /\ UNCHANGED <<now, aiEnabled, dreams, moments, nextId, req, tasks, channel, sc,
                   manager, listener, sockets, moderation, worker, momentTtl,
                   account, login>>

----------------------------------------------------------------------------
(* History variables.  A specification either keeps them or leaves them *)
(* alone; no handler reads them.                                         *)

NoHistory == UNCHANGED <<dreamLog, overlap, fan>>

----------------------------------------------------------------------------
(* The content lifecycle: every handler, the enrichment tasks, the demo  *)
(* generator and the sweep, under a clock that visits the expiry         *)
(* instants of the rows.  A handler that has started runs to its         *)
(* response before the clock, the tasks or the sweep move again; the     *)
(* sweep's own steps interleave with everything else.                    *)

Sockets == {"w1", "w2"}
NoSocket == [state |-> "none", attempts |-> <<>>, received |-> <<>>, failed |-> {}]
ListenerStarting ==
    [pc |-> "starting", cursor |-> 0, event |-> 0, snapshot |-> {}, done |-> {},
     current |-> NULL]

WorkerIdle ==
    [pc |-> "idle", kind |-> "none", id |-> 0, analysis |-> NULL,
     image_outcome |-> NULL, image |-> NULL, outcome |-> NULL]

NoExplanation == [text |-> NULL, tags |-> {}]
NoResult ==
    [has_score |-> FALSE, score |-> 0, has_explanation |-> FALSE,
     explanation |-> NoExplanation]
NoReply ==
    [raised |-> FALSE, has_score |-> FALSE, score |-> 0, has_explanation |-> FALSE]

ScIdle ==
    [pc |-> "idle", openai_client |-> FALSE, dream_tags |-> <<>>,
     moment_tags |-> <<>>, moment_caption |-> NULL, called |-> FALSE,
     outcome |-> NULL, reply |-> NoReply, result |-> NoResult]

EmptyTables ==
    /\ now = 0
    /\ dreams = <<>>
    /\ moments = <<>>
    /\ nextId = 1
    /\ req = [r \in Reqs |-> IdleFrame]
    /\ tasks = {}
    /\ channel = <<>>
    /\ sweep = SweepIdle
    /\ dreamLog = <<>>
    /\ overlap = [u \in Users |-> [op \in {"create_dream", "create_moment"} |-> 0]]
    /\ manager = {}
    /\ listener = ListenerStarting
    /\ sockets = [s \in Sockets |-> NoSocket]
    /\ fan = [at_publish |-> <<>>, at_broadcast |-> <<>>]
    /\ moderation = [openai_client |-> TRUE, api_up |-> TRUE]
    /\ worker = WorkerIdle
    /\ login = [r \in Reqs |-> LoginIdle]

EmptyStore == EmptyTables /\ account = NewUser

(* config.py 31: the moment TTL as shipped. *)
InitStore == EmptyStore /\ momentTtl = MOMENT_TTL_SECONDS

Busy == Cardinality({r \in Reqs : req[r].pc # "idle"})
Quiet == Busy = 0

LifeTimes == {0, MOMENT_TTL_SECONDS, DAY}
LifeTtls == {7, 15}
LifeIds == 1..LifeMaxIds
LifeCaptions == {NULL, "sky"}
LifeDemoTtls == {30}
LifeAnalyses == {"gpt"}
LifeImages == {"local"}
LifeCanInsert == nextId <= LifeMaxIds

Init ==
    /\ InitStore
    /\ aiEnabled = TRUE
    /\ sc = ScIdle

Next ==
    \/ Quiet /\ Tick(LifeTimes) /\ NoHistory
    \/ /\ Quiet /\ LifeCanInsert
       /\ \E ttl \in LifeTtls : CreateDreamModerate(1, "u1", ttl, TRUE, FALSE)
       /\ NoHistory
    \/ Quiet /\ CreateDreamModerate(1, "u1", 1, TRUE, TRUE) /\ NoHistory
    \/ CreateDreamQuota(1) /\ NoHistory
    \/ CreateDreamInsert(1) /\ NoHistory
    \/ Quiet /\ (\E u \in Users, id \in DOMAIN dreams : DeleteDream(1, u, id)) /\ NoHistory
    \/ /\ Quiet
       /\ \E id \in DOMAIN dreams :
             /\ dreams[id].view_count < LifeMaxViews
             /\ GetDreamLoad(1, "u2", id)
       /\ NoHistory
    \/ GetDreamCommit(1) /\ NoHistory
    \/ /\ Quiet /\ LifeCanInsert
       /\ \E cap \in LifeCaptions, flagged \in BOOLEAN :
             CreateMomentModerate(1, "u1", cap, flagged)
       /\ NoHistory
    \/ CreateMomentQuota(1) /\ NoHistory
    \/ CreateMomentInsert(1) /\ NoHistory
    \/ CreateMomentPublish(1, TRUE) /\ NoHistory
    \/ /\ Quiet
       /\ \E id \in DOMAIN moments :
             /\ moments[id].view_count < LifeMaxViews
             /\ GetMomentLoad(1, "u2", id)
       /\ NoHistory
    \/ GetMomentCommit(1) /\ NoHistory
    \/ Return(1) /\ NoHistory
    \/ /\ Quiet
       /\ \E id \in LifeIds, a \in LifeAnalyses, img \in LifeImages, raised \in BOOLEAN :
             ProcessDreamAi(id, a, img, raised)
       /\ NoHistory
    \/ Quiet /\ (\E id \in LifeIds, raised \in BOOLEAN : ProcessMomentAi(id, raised)) /\ NoHistory
    \/ /\ Quiet /\ LifeCanInsert
       /\ \E ttl \in LifeDemoTtls, a \in LifeAnalyses, img \in LifeImages, enriched \in BOOLEAN :
             GenerateDemoDream(ttl, a, img, enriched)
       /\ NoHistory
    \/ SweepStart /\ NoHistory
    \/ SweepSelectMoments /\ NoHistory
    \/ SweepSelectDreams /\ NoHistory
    \/ SweepCommit /\ NoHistory
    \/ SweepFail /\ NoHistory
    \/ SweepExit /\ NoHistory

Spec == Init /\ [][Next]_vars

----------------------------------------------------------------------------
(* The publish quotas: create and delete requests of two owners, their   *)
(* steps interleaving freely (SpecQuota) or one request at a time        *)
(* (SpecQuotaSeq), with enrichment switched off.  The clock visits both  *)
(* sides of the hour window and of the UTC day boundary.                 *)

(* Create requests of owner u that have arrived and are not yet answered. *)
InFlight(rq, u, op) ==
    Cardinality({r \in Reqs : /\ rq[r].op = op
                              /\ rq[r].user = u
                              /\ rq[r].pc \in {"quota", "insert", "publish"}})

KeepOverlap ==
    overlap' = [u \in Users |-> [op \in {"create_dream", "create_moment"} |->
                   Max(overlap[u][op], InFlight(req', u, op))]]

KeepLog ==
    dreamLog' = [id \in DOMAIN dreamLog \cup DOMAIN dreams' |->
                    IF id \in DOMAIN dreamLog
                    THEN dreamLog[id]
                    ELSE [user_id |-> dreams'[id].user_id,
                          created_at |-> dreams'[id].created_at]]

QuotaTimes == {0, 1, HOUR + 1, DAY}
RaceTimes == {0, DAY}
QuotaCanInsert == nextId <= QuotaMaxIds

InitQuota ==
    /\ InitStore
    /\ aiEnabled = FALSE
    /\ sc = ScIdle

(* One request at a time. *)
SeqHistory == UNCHANGED <<overlap, fan>> /\ KeepLog

QuotaSeqNext ==
    \/ Quiet /\ Tick(QuotaTimes) /\ SeqHistory
    \/ /\ Quiet /\ QuotaCanInsert
       /\ \E u \in Users : CreateDreamModerate(1, u, 1, TRUE, FALSE)
       /\ SeqHistory
    \/ /\ Quiet
       /\ \E u \in Users : CreateDreamModerate(1, u, 1, TRUE, TRUE)
       /\ SeqHistory
    \/ CreateDreamQuota(1) /\ SeqHistory
    \/ CreateDreamInsert(1) /\ SeqHistory
    \/ /\ Quiet
       /\ \E u \in Users, id \in DOMAIN dreams : DeleteDream(1, u, id)
       /\ SeqHistory
    \/ /\ Quiet /\ QuotaCanInsert
       /\ \E u \in Users : CreateMomentModerate(1, u, NULL, FALSE)
       /\ SeqHistory
    \/ CreateMomentQuota(1) /\ SeqHistory
    \/ CreateMomentInsert(1) /\ SeqHistory
    \/ CreateMomentPublish(1, TRUE) /\ SeqHistory
    \/ Return(1) /\ SeqHistory

(* Requests overlap: the steps of the two slots interleave. *)
RaceHistory == UNCHANGED <<dreamLog, fan>> /\ KeepOverlap
RaceCanInsert == nextId <= RaceMaxIds

QuotaNext ==
    \/ Tick(RaceTimes) /\ RaceHistory
    \/ /\ RaceCanInsert
       /\ \E r \in Reqs, u \in Users : CreateDreamModerate(r, u, 1, TRUE, FALSE)
       /\ RaceHistory
    \/ (\E r \in Reqs : CreateDreamQuota(r)) /\ RaceHistory
    \/ (\E r \in Reqs : CreateDreamInsert(r)) /\ RaceHistory
    \/ /\ \E r \in Reqs, u \in Users, id \in DOMAIN dreams : DeleteDream(r, u, id)
       /\ RaceHistory
    \/ /\ RaceCanInsert
       /\ \E r \in Reqs, u \in Users : CreateMomentModerate(r, u, NULL, FALSE)
       /\ RaceHistory
    \/ (\E r \in Reqs : CreateMomentQuota(r)) /\ RaceHistory
    \/ (\E r \in Reqs : CreateMomentInsert(r)) /\ RaceHistory
    \/ (\E r \in Reqs : CreateMomentPublish(r, TRUE)) /\ RaceHistory
    \/ (\E r \in Reqs : Return(r)) /\ RaceHistory

SpecQuota == InitQuota /\ [][QuotaNext]_vars
SpecQuotaSeq == InitQuota /\ [][QuotaSeqNext]_vars

----------------------------------------------------------------------------
(* The resonance scorer (SpecScorer): AIService.calculate_resonance      *)
(* applied to a dream's tag list, a moment's tag list and a caption, with *)
(* or without the OpenAI client.  Tags are numbered; a tag list may      *)
(* repeat a tag.                                                         *)

Tags == 1..MaxTags
Range(list) == {list[i] : i \in DOMAIN list}

(* The runs i..j of the tags, the empty list, and each run with its      *)
(* first tag repeated.                                                   *)
TagRuns == {[k \in 1..(j - i + 1) |-> i + k - 1] : i \in Tags, j \in Tags}
TagLists == TagRuns \cup {Append(l, l[1]) : l \in TagRuns \ {<<>>}}

Captions == {NULL, "", "rain on the window"}

(* What the awaited completion can produce: an exception (the call      *)
(* times out, the transport fails, the content does not parse), or a     *)
(* JSON object that may lack the score key or the explanation key and    *)
(* may carry any number as its score.                                    *)
ReplyScores == {-1, 0, 50, 100, 101}
Replies ==
    {[NoReply EXCEPT !.raised = TRUE]}
    \cup {[NoReply EXCEPT !.has_explanation = e] : e \in BOOLEAN}
    \cup {[NoReply EXCEPT !.has_score = TRUE, !.score = n, !.has_explanation = e] :
             n \in ReplyScores, e \in BOOLEAN}

CommonTags(dream_tags, moment_tags) == Range(dream_tags) \cap Range(moment_tags)

(* ai_service.py 281-289 *)
MockResonance(dream_tags, moment_tags) ==
    [has_score |-> TRUE,
     score |-> Cardinality(CommonTags(dream_tags, moment_tags)) * 25,
     has_explanation |-> TRUE,
     explanation |-> [text |-> "Subtle resonance detected", tags |-> {}]]

(* ai_service.py 226-228 *)
OverlapScore(dream_tags, moment_tags) ==
    Cardinality(CommonTags(dream_tags, moment_tags)) * 20

(* ai_service.py 230 *)
AsksGptFromOneTag(score, caption) == score >= 20 /\ HasCaption(caption)
AsksGpt(score, caption) == score > 20 /\ HasCaption(caption)

(* ai_service.py 264: the common tags joined, or a fixed sentence.       *)
SharedElements(common) ==
    IF common # {}
    THEN [text |-> "Shared elements", tags |-> common]
    ELSE [text |-> "Subtle connection", tags |-> {}]

OverlapResonanceUncapped(dream_tags, moment_tags) ==
    [has_score |-> TRUE,
     score |-> OverlapScore(dream_tags, moment_tags),
     has_explanation |-> TRUE,
     explanation |-> SharedElements(CommonTags(dream_tags, moment_tags))]

(* ai_service.py 262-265 *)
OverlapResonance(dream_tags, moment_tags) ==
    [has_score |-> TRUE,
     score |-> Min(OverlapScore(dream_tags, moment_tags), 100),
     has_explanation |-> TRUE,
     explanation |-> SharedElements(CommonTags(dream_tags, moment_tags))]

(* ai_service.py 219-230: without the client the fallback answers; with  *)
(* it the overlap score decides whether GPT is asked.                    *)
CalculateResonance ==
    /\ sc.pc = "start"
    /\ sc' =
         IF ~sc.openai_client
         THEN [sc EXCEPT !.pc = "returned", !.outcome = "absent",
                         !.result = MockResonance(sc.dream_tags, sc.moment_tags)]
         ELSE IF AsksGpt(OverlapScore(sc.dream_tags, sc.moment_tags), sc.moment_caption)
         THEN [sc EXCEPT !.pc = "awaiting", !.called = TRUE]
         ELSE [sc EXCEPT !.pc = "returned", !.outcome = "not_attempted",
                         !.result = OverlapResonance(sc.dream_tags, sc.moment_tags)]
    /\ UNCHANGED <<now, aiEnabled, dreams, moments, nextId, req, tasks, channel,
                   sweep, dreamLog, overlap, fan,
                   manager, listener, sockets, moderation, worker, momentTtl,
                   account, login>>

(* ai_service.py 246-265: the parsed reply is returned as it is; an      *)
(* exception falls through to the overlap score.                         *)
ResonanceReply(reply) ==
    /\ sc.pc = "awaiting"
    /\ sc' =
         IF reply.raised
         THEN [sc EXCEPT !.pc = "returned", !.outcome = "failed", !.reply = reply,
                         !.result = OverlapResonance(sc.dream_tags, sc.moment_tags)]
         ELSE [sc EXCEPT !.pc = "returned", !.outcome = "replaced", !.reply = reply,
                         !.result = [has_score |-> reply.has_score,
                                     score |-> reply.score,
                                     has_explanation |-> reply.has_explanation,
                                     explanation |->
                                        IF reply.has_explanation
                                        THEN [text |-> "reply", tags |-> {}]
                                        ELSE NoExplanation]]
    /\ UNCHANGED <<now, aiEnabled, dreams, moments, nextId, req, tasks, channel,
                   sweep, dreamLog, overlap, fan,
                   manager, listener, sockets, moderation, worker, momentTtl,
                   account, login>>

(* ai_service.py 14-22: the client exists only when AI features are on.  *)
InitScorer ==
    /\ InitStore
    /\ aiEnabled \in BOOLEAN
    /\ sc \in {[pc |-> "start", openai_client |-> c, dream_tags |-> d,
                moment_tags |-> m, moment_caption |-> cap, called |-> FALSE,
                outcome |-> NULL, reply |-> NoReply, result |-> NoResult] :
                  c \in {b \in BOOLEAN : b => aiEnabled}, d \in TagLists,
                  m \in TagLists, cap \in Captions}

ScorerNext ==
    \/ CalculateResonance
    \/ \E reply \in Replies : ResonanceReply(reply)

SpecScorer == InitScorer /\ [][ScorerNext]_vars

----------------------------------------------------------------------------
(* The live fan-out (SpecFanout): moments are created and published, the *)
(* redis_listener task broadcasts each message to the WebSocket          *)
(* connections of the ConnectionManager, and peers connect, stall and    *)
(* go away at any time.  A connection is one WebSocket object: once      *)
(* closed it does not come back.                                         *)

(* main.py 27-29 *)
Connect(s) ==
    /\ sockets[s].state = "none"
    /\ sockets' = [sockets EXCEPT ![s].state = "open"]
    /\ manager' = manager \cup {s}
    /\ UNCHANGED <<now, aiEnabled, dreams, moments, nextId, req, tasks, channel,
                   sweep, dreamLog, overlap, sc, listener, moderation, worker, momentTtl,
                   account, login>>

(* The peer stops reading: a send to it neither completes nor raises.    *)
PeerStall(s) ==
    /\ sockets[s].state = "open"
    /\ sockets' = [sockets EXCEPT ![s].state = "stalled"]
    /\ UNCHANGED <<now, aiEnabled, dreams, moments, nextId, req, tasks, channel,
                   sweep, dreamLog, overlap, sc, manager, listener, moderation, worker, momentTtl,
                   account, login>>

(* The peer goes away: sends to it raise from now on, and receive_text   *)
(* in websocket_stream will raise WebSocketDisconnect.                   *)
PeerClose(s) ==
    /\ sockets[s].state \in {"open", "stalled"}
    /\ sockets' = [sockets EXCEPT ![s].state = "closing"]
    /\ UNCHANGED <<now, aiEnabled, dreams, moments, nextId, req, tasks, channel,
                   sweep, dreamLog, overlap, sc, manager, listener, moderation, worker, momentTtl,
                   account, login>>

(* main.py 124-130 and 31-32 *)
Disconnect(s) ==
    /\ sockets[s].state = "closing"
    /\ sockets' = [sockets EXCEPT ![s].state = "closed"]
    /\ manager' = manager \ {s}
    /\ UNCHANGED <<now, aiEnabled, dreams, moments, nextId, req, tasks, channel,
                   sweep, dreamLog, overlap, sc, listener, moderation, worker, momentTtl,
                   account, login>>

(* main.py 138-140: messages published before the subscription are not  *)
(* seen.                                                                 *)
ListenerSubscribe ==
    /\ listener.pc = "starting"
    /\ listener' = [listener EXCEPT !.pc = "listen", !.cursor = Len(channel)]
    /\ UNCHANGED <<now, aiEnabled, dreams, moments, nextId, req, tasks, channel,
                   sweep, dreamLog, overlap, sc, manager, sockets, moderation, worker, momentTtl,
                   account, login>>

(* main.py 142-145 and 36: the next message; broadcast copies the set.   *)
ListenerMessage ==
    /\ listener.pc = "listen"
    /\ listener.cursor < Len(channel)
    /\ listener' = [listener EXCEPT !.pc = "broadcast",
                                    !.cursor = listener.cursor + 1,
                                    !.event = channel[listener.cursor + 1],
                                    !.snapshot = manager,
                                    !.done = {}]
    /\ UNCHANGED <<now, aiEnabled, dreams, moments, nextId, req, tasks, channel,
                   sweep, dreamLog, overlap, sc, manager, sockets, moderation, worker, momentTtl,
                   account, login>>

(* main.py 150-155: pubsub.listen raises; the task logs and ends.        *)
ListenerFail ==
    /\ listener.pc = "listen"
    /\ listener' = [listener EXCEPT !.pc = "stopped"]
    /\ UNCHANGED <<now, aiEnabled, dreams, moments, nextId, req, tasks, channel,
                   sweep, dreamLog, overlap, sc, manager, sockets, moderation, worker, momentTtl,
                   account, login>>

(* main.py 36: the loop runs over the copy, not over the live set.       *)
RemainingOfLiveSet(snapshot, done, live) == live \ done
Remaining(snapshot, done, live) == snapshot \ done

(* main.py 36-38: the send to the next connection of the copy begins.    *)
BroadcastSend(s) ==
    /\ listener.pc = "broadcast"
    /\ s \in Remaining(listener.snapshot, listener.done, manager)
    /\ listener' = [listener EXCEPT !.pc = "sending", !.current = s]
    /\ sockets' = [sockets EXCEPT
                     ![s].attempts = Append(sockets[s].attempts, listener.event)]
    /\ UNCHANGED <<now, aiEnabled, dreams, moments, nextId, req, tasks, channel,
                   sweep, dreamLog, overlap, sc, manager, moderation, worker, momentTtl,
                   account, login>>

SendJsonReturnsNewestFirst ==
    /\ listener.pc = "sending"
    /\ sockets[listener.current].state = "open"
    /\ sockets' = [sockets EXCEPT ![listener.current].received =
                     <<listener.event>> \o sockets[listener.current].received]
    /\ listener' = [listener EXCEPT !.pc = "broadcast", !.current = NULL,
                                    !.done = listener.done \cup {listener.current}]
    /\ UNCHANGED <<now, aiEnabled, dreams, moments, nextId, req, tasks, channel,
                   sweep, dreamLog, overlap, sc, manager, moderation, worker, momentTtl,
                   account, login>>

(* main.py 38: send_json returns, the peer has the event.                *)
SendJsonReturns ==
    /\ listener.pc = "sending"
    /\ sockets[listener.current].state = "open"
    /\ sockets' = [sockets EXCEPT ![listener.current].received =
                     Append(sockets[listener.current].received, listener.event)]
    /\ listener' = [listener EXCEPT !.pc = "broadcast", !.current = NULL,
                                    !.done = listener.done \cup {listener.current}]
    /\ UNCHANGED <<now, aiEnabled, dreams, moments, nextId, req, tasks, channel,
                   sweep, dreamLog, overlap, sc, manager, moderation, worker, momentTtl,
                   account, login>>

SendJsonRaisesStopsListener ==
    /\ listener.pc = "sending"
    /\ sockets[listener.current].state \in {"closing", "closed"}
    /\ manager' = manager \ {listener.current}
    /\ sockets' = [sockets EXCEPT ![listener.current].failed =
                     sockets[listener.current].failed \cup {listener.event}]
    /\ listener' = [listener EXCEPT !.pc = "stopped", !.current = NULL]
    /\ UNCHANGED <<now, aiEnabled, dreams, moments, nextId, req, tasks, channel,
                   sweep, dreamLog, overlap, sc, moderation, worker, momentTtl,
                   account, login>>

SendJsonRaisesAborts ==
    /\ listener.pc = "sending"
    /\ sockets[listener.current].state \in {"closing", "closed"}
    /\ manager' = manager \ {listener.current}
    /\ sockets' = [sockets EXCEPT ![listener.current].failed =
                     sockets[listener.current].failed \cup {listener.event}]
    /\ listener' = [listener EXCEPT !.pc = "broadcast", !.current = NULL,
                                    !.done = listener.snapshot]
    /\ UNCHANGED <<now, aiEnabled, dreams, moments, nextId, req, tasks, channel,
                   sweep, dreamLog, overlap, sc, moderation, worker, momentTtl,
                   account, login>>

SendJsonRaisesKeepsConnection ==
    /\ listener.pc = "sending"
    /\ sockets[listener.current].state \in {"closing", "closed"}
    /\ sockets' = [sockets EXCEPT ![listener.current].failed =
                     sockets[listener.current].failed \cup {listener.event}]
    /\ listener' = [listener EXCEPT !.pc = "broadcast", !.current = NULL,
                                    !.done = listener.done \cup {listener.current}]
    /\ UNCHANGED <<now, aiEnabled, dreams, moments, nextId, req, tasks, channel,
                   sweep, dreamLog, overlap, sc, manager, moderation, worker, momentTtl,
                   account, login>>

(* main.py 39-40: send_json raises, the connection is discarded and the  *)
(* loop goes on.                                                         *)
SendJsonRaises ==
    /\ listener.pc = "sending"
    /\ sockets[listener.current].state \in {"closing", "closed"}
    /\ manager' = manager \ {listener.current}
    /\ sockets' = [sockets EXCEPT ![listener.current].failed =
                     sockets[listener.current].failed \cup {listener.event}]
    /\ listener' = [listener EXCEPT !.pc = "broadcast", !.current = NULL,
                                    !.done = listener.done \cup {listener.current}]
    /\ UNCHANGED <<now, aiEnabled, dreams, moments, nextId, req, tasks, channel,
                   sweep, dreamLog, overlap, sc, moderation, worker, momentTtl,
                   account, login>>

(* main.py 149: the copy is exhausted, back to pubsub.listen.            *)
BroadcastReturn ==
    /\ listener.pc = "broadcast"
    /\ Remaining(listener.snapshot, listener.done, manager) = {}
    /\ listener' = [listener EXCEPT !.pc = "listen", !.event = 0,
                                    !.snapshot = {}, !.done = {}]
    /\ UNCHANGED <<now, aiEnabled, dreams, moments, nextId, req, tasks, channel,
                   sweep, dreamLog, overlap, sc, manager, sockets, moderation, worker, momentTtl,
                   account, login>>

Extend(log, keys, value) ==
    [k \in DOMAIN log \cup keys |-> IF k \in DOMAIN log THEN log[k] ELSE value]

(* The live set at the publish of each event and at the start of its     *)
(* broadcast.                                                            *)
KeepFan ==
    fan' = [at_publish |->
               Extend(fan.at_publish, Range(channel') \ Range(channel), manager),
            at_broadcast |->
               Extend(fan.at_broadcast,
                      IF listener.pc = "listen" /\ listener'.pc = "broadcast"
                      THEN {listener'.event} ELSE {},
                      manager)]

FanHistory == UNCHANGED <<dreamLog, overlap>> /\ KeepFan
FanCanInsert == nextId <= FanMaxIds

InitFanout ==
    /\ InitStore
    /\ aiEnabled = FALSE
    /\ sc = ScIdle

FanoutNext ==
    \/ /\ Quiet /\ FanCanInsert
       /\ CreateMomentModerate(1, "u1", NULL, FALSE)
       /\ FanHistory
    \/ CreateMomentQuota(1) /\ FanHistory
    \/ CreateMomentInsert(1) /\ FanHistory
    \/ (\E ok \in BOOLEAN : CreateMomentPublish(1, ok)) /\ FanHistory
    \/ Return(1) /\ FanHistory
    \/ (\E s \in Sockets : Connect(s)) /\ FanHistory
    \/ (\E s \in Sockets : PeerStall(s)) /\ FanHistory
    \/ (\E s \in Sockets : PeerClose(s)) /\ FanHistory
    \/ (\E s \in Sockets : Disconnect(s)) /\ FanHistory
    \/ ListenerSubscribe /\ FanHistory
    \/ ListenerMessage /\ FanHistory
    \/ ListenerFail /\ FanHistory
    \/ (\E s \in Sockets : BroadcastSend(s)) /\ FanHistory
    \/ SendJsonReturns /\ FanHistory
    \/ SendJsonRaises /\ FanHistory
    \/ BroadcastReturn /\ FanHistory

SpecFanout == InitFanout /\ [][FanoutNext]_vars

(* The event loop runs the listener task whenever it can take a step;    *)
(* nothing obliges peers or callers to act.                              *)
ListenerFairness ==
    /\ WF_vars(ListenerSubscribe /\ FanHistory)
    /\ WF_vars(ListenerMessage /\ FanHistory)
    /\ WF_vars((\E s \in Sockets : BroadcastSend(s)) /\ FanHistory)
    /\ WF_vars(SendJsonReturns /\ FanHistory)
    /\ WF_vars(SendJsonRaises /\ FanHistory)
    /\ WF_vars(BroadcastReturn /\ FanHistory)

SpecFanoutLive == SpecFanout /\ ListenerFairness

(* The same with Redis up and every peer either reading or gone: the     *)
(* only fault left is a send that raises.                                 *)
FanoutUpNext ==
    \/ /\ Quiet /\ FanCanInsert
       /\ CreateMomentModerate(1, "u1", NULL, FALSE)
       /\ FanHistory
    \/ CreateMomentQuota(1) /\ FanHistory
    \/ CreateMomentInsert(1) /\ FanHistory
    \/ (\E ok \in BOOLEAN : CreateMomentPublish(1, ok)) /\ FanHistory
    \/ Return(1) /\ FanHistory
    \/ (\E s \in Sockets : Connect(s)) /\ FanHistory
    \/ (\E s \in Sockets : PeerClose(s)) /\ FanHistory
    \/ (\E s \in Sockets : Disconnect(s)) /\ FanHistory
    \/ ListenerSubscribe /\ FanHistory
    \/ ListenerMessage /\ FanHistory
    \/ (\E s \in Sockets : BroadcastSend(s)) /\ FanHistory
    \/ SendJsonReturns /\ FanHistory
    \/ SendJsonRaises /\ FanHistory
    \/ BroadcastReturn /\ FanHistory

SpecFanoutUp == InitFanout /\ [][FanoutUpNext]_vars /\ ListenerFairness

----------------------------------------------------------------------------
(* The create path and its failures (SpecCreate): requests arrive one at *)
(* a time with clean or offensive text, the moderation API and the Redis *)
(* publish may fail, and enrichment is scheduled but not run.            *)

CheckTextFailsClosed(has_text, offensive) ==
    moderation.openai_client /\ has_text /\ (~moderation.api_up \/ offensive)

(* moderation.py 13-38: without a client or a text, and when the call    *)
(* raises, the verdict is "not flagged".                                 *)
CheckText(has_text, offensive) ==
    IF ~moderation.openai_client \/ ~has_text
    THEN FALSE
    ELSE IF ~moderation.api_up THEN FALSE ELSE offensive

(* The moderation API goes down or comes back between requests. *)
ModerationApi(up) ==
    /\ moderation.api_up # up
    /\ moderation' = [moderation EXCEPT !.api_up = up]
    /\ UNCHANGED <<now, aiEnabled, dreams, moments, nextId, req, tasks, channel,
                   sweep, dreamLog, overlap, fan, sc, manager, listener, sockets, worker, momentTtl,
                   account, login>>

Running == {r \in Reqs : req[r].pc \notin {"idle", "done"}}
CreateCaptions == {NULL, "sky"}
CreateCanInsert == nextId <= CreateMaxIds

(* moderation.py 8-11: the client exists when an API key is configured.  *)
InitCreate ==
    /\ now = 0
    /\ dreams = <<>>
    /\ moments = <<>>
    /\ nextId = 1
    /\ req = [r \in Reqs |-> IdleFrame]
    /\ tasks = {}
    /\ channel = <<>>
    /\ sweep = SweepIdle
    /\ dreamLog = <<>>
    /\ overlap = [u \in Users |-> [op \in {"create_dream", "create_moment"} |-> 0]]
    /\ manager = {}
    /\ listener = ListenerStarting
    /\ sockets = [s \in Sockets |-> NoSocket]
    /\ fan = [at_publish |-> <<>>, at_broadcast |-> <<>>]
    /\ moderation \in {[openai_client |-> c, api_up |-> TRUE] : c \in BOOLEAN}
    /\ worker = WorkerIdle
    /\ account = NewUser
    /\ login = [r \in Reqs |-> LoginIdle]
    /\ momentTtl = MOMENT_TTL_SECONDS
    /\ aiEnabled = TRUE
    /\ sc = ScIdle

CreateNext ==
    \/ Quiet /\ (\E up \in BOOLEAN : ModerationApi(up))
    \/ /\ Running = {} /\ CreateCanInsert
       /\ \E r \in Reqs, offensive \in BOOLEAN :
             CreateDreamModerate(r, "u1", 7, TRUE, CheckText(TRUE, offensive))
       /\ NoHistory
    \/ (\E r \in Reqs : CreateDreamQuota(r)) /\ NoHistory
    \/ (\E r \in Reqs : CreateDreamInsert(r)) /\ NoHistory
    \/ /\ Running = {} /\ CreateCanInsert
       /\ \E r \in Reqs, cap \in CreateCaptions, offensive \in BOOLEAN :
             CreateMomentModerate(r, "u1", cap, CheckText(HasCaption(cap), offensive))
       /\ NoHistory
    \/ (\E r \in Reqs : CreateMomentQuota(r)) /\ NoHistory
    \/ (\E r \in Reqs : CreateMomentInsert(r)) /\ NoHistory
    \/ (\E r \in Reqs, ok \in BOOLEAN : CreateMomentPublish(r, ok)) /\ NoHistory
    \/ (\E r \in Reqs : Return(r)) /\ NoHistory

SpecCreate == InitCreate /\ [][CreateNext]_vars

----------------------------------------------------------------------------
(* The background task step by step (SpecEnrich).  The worker frame is    *)
(* the task that is running: what its calls returned and where it is.     *)

EnrichMaxIds == 2

ImageOutcomes == {"no_client", "generate_raised", "download_failed", "saved"}

(* ai_service.py 128-159: None without a client and when the generation  *)
(* raises; otherwise the saved local path, or, when the download returned *)
(* None, the URL the image API answered with.                             *)
GenerateDreamImage(outcome) ==
    CASE outcome = "no_client" -> NULL
      [] outcome = "generate_raised" -> NULL
      [] outcome = "download_failed" -> "upstream"
      [] OTHER -> "local"

WorkerAt(pc, kind) == worker.pc = pc /\ worker.kind = kind
WorkerKeeps ==
    UNCHANGED <<now, aiEnabled, dreams, moments, nextId, req, tasks, channel, sweep, sc,
                manager, listener, sockets, moderation, momentTtl,
                   account, login>>

(* The event loop picks a scheduled task up. *)
TaskStart(t) ==
    /\ worker.pc = "idle"
    /\ t \in tasks
    /\ tasks' = tasks \ {t}
    /\ worker' = [WorkerIdle EXCEPT !.pc = IF t.kind = "dream" THEN "analyze" ELSE "tag",
                                    !.kind = t.kind, !.id = t.id]
    /\ UNCHANGED <<now, aiEnabled, dreams, moments, nextId, req, channel, sweep, sc,
                   manager, listener, sockets, moderation, momentTtl,
                   account, login>>

(* dreams.py 20-23: analyze_dream answers with the model's analysis or    *)
(* with its mock; raised: the answer has no .get (it is not an object).   *)
TaskAnalyze(a, raised) ==
    /\ WorkerAt("analyze", "dream")
    /\ worker' = IF raised
                 THEN [worker EXCEPT !.pc = "rollback"]
                 ELSE [worker EXCEPT !.pc = "image", !.analysis = a]
    /\ WorkerKeeps

TaskImageAbortsOnFailure(o) ==
    /\ WorkerAt("image", "dream")
    /\ worker' = IF GenerateDreamImage(o) = NULL
                 THEN [worker EXCEPT !.pc = "rollback", !.image_outcome = o]
                 ELSE [worker EXCEPT !.pc = "load", !.image_outcome = o,
                                     !.image = GenerateDreamImage(o)]
    /\ WorkerKeeps

(* dreams.py 24-25 *)
TaskImage(o) ==
    /\ WorkerAt("image", "dream")
    /\ worker' = [worker EXCEPT !.pc = "load", !.image_outcome = o,
                                !.image = GenerateDreamImage(o)]
    /\ WorkerKeeps

(* moments.py 21: the tags are computed from the caption the task was    *)
(* given; captions are never rewritten, so the row's caption is that one. *)
TaskTag ==
    /\ WorkerAt("tag", "moment")
    /\ worker' = [worker EXCEPT !.pc = "load",
                     !.analysis = IF worker.id \in DOMAIN moments
                                  THEN AnalyzeMoment(moments[worker.id].caption)
                                  ELSE AnalyzeMoment(NULL)]
    /\ WorkerKeeps

WorkerTable == IF worker.kind = "dream" THEN dreams ELSE moments

(* dreams.py 28-31, moments.py 24-27: the SELECT; no row, nothing to do.  *)
TaskLoad(raised) ==
    /\ worker.pc = "load"
    /\ worker' = IF raised THEN [worker EXCEPT !.pc = "rollback"]
                 ELSE IF worker.id \notin DOMAIN WorkerTable
                      THEN [worker EXCEPT !.pc = "done", !.outcome = "missing"]
                      ELSE [worker EXCEPT !.pc = "commit"]
    /\ WorkerKeeps

WorkerWrite(table) ==
    IF worker.kind = "dream"
    THEN [table EXCEPT ![worker.id] =
             DreamWriteBack(table[worker.id], worker.analysis, worker.image)]
    ELSE [table EXCEPT ![worker.id] = MomentWriteBack(table[worker.id], worker.analysis)]

TaskCommitKeepsPartialWrite(raised) ==
    /\ worker.pc = "commit"
    /\ IF worker.id \notin DOMAIN WorkerTable
       THEN /\ worker' = [worker EXCEPT !.pc = "rollback"]
            /\ UNCHANGED <<dreams, moments>>
       ELSE /\ worker' = IF raised THEN [worker EXCEPT !.pc = "rollback"]
                         ELSE [worker EXCEPT !.pc = "done", !.outcome = "ok"]
            /\ dreams' = IF worker.kind = "dream" THEN WorkerWrite(dreams) ELSE dreams
            /\ moments' = IF worker.kind = "moment" THEN WorkerWrite(moments) ELSE moments
    /\ UNCHANGED <<now, aiEnabled, nextId, req, tasks, channel, sweep, sc,
                   manager, listener, sockets, moderation, momentTtl,
                   account, login>>

(* dreams.py 32-35, moments.py 28-29: the assignments reach the table at *)
(* the commit.  raised: the commit fails; it also fails when the row was  *)
(* deleted after the SELECT (the UPDATE matches no row).                  *)
TaskCommit(raised) ==
    /\ worker.pc = "commit"
    /\ IF raised \/ worker.id \notin DOMAIN WorkerTable
       THEN /\ worker' = [worker EXCEPT !.pc = "rollback"]
            /\ UNCHANGED <<dreams, moments>>
       ELSE /\ worker' = [worker EXCEPT !.pc = "done", !.outcome = "ok"]
            /\ dreams' = IF worker.kind = "dream" THEN WorkerWrite(dreams) ELSE dreams
            /\ moments' = IF worker.kind = "moment" THEN WorkerWrite(moments) ELSE moments
    /\ UNCHANGED <<now, aiEnabled, nextId, req, tasks, channel, sweep, sc,
                   manager, listener, sockets, moderation, momentTtl,
                   account, login>>

(* dreams.py 37-39, moments.py 31-33 *)
TaskRollback ==
    /\ worker.pc = "rollback"
    /\ worker' = [worker EXCEPT !.pc = "done", !.outcome = "failed"]
    /\ WorkerKeeps

TaskExit ==
    /\ worker.pc = "done"
    /\ worker' = WorkerIdle
    /\ WorkerKeeps

EnrichCaptions == {NULL, "sky"}
EnrichCanInsert == nextId <= EnrichMaxIds

InitEnrich == InitStore /\ aiEnabled = TRUE /\ sc = ScIdle

EnrichNext ==
    \/ /\ Quiet /\ EnrichCanInsert
       /\ \E flagged \in BOOLEAN : CreateDreamModerate(1, "u1", 7, TRUE, flagged)
       /\ NoHistory
    \/ CreateDreamQuota(1) /\ NoHistory
    \/ CreateDreamInsert(1) /\ NoHistory
    \/ /\ Quiet /\ EnrichCanInsert
       /\ \E cap \in EnrichCaptions : CreateMomentModerate(1, "u1", cap, FALSE)
       /\ NoHistory
    \/ CreateMomentQuota(1) /\ NoHistory
    \/ CreateMomentInsert(1) /\ NoHistory
    \/ (\E ok \in BOOLEAN : CreateMomentPublish(1, ok)) /\ NoHistory
    \/ Quiet /\ (\E u \in Users, id \in DOMAIN dreams : DeleteDream(1, u, id)) /\ NoHistory
    \/ Return(1) /\ NoHistory
    \/ (\E t \in tasks : TaskStart(t)) /\ NoHistory
    \/ (\E a \in Analyses, raised \in BOOLEAN : TaskAnalyze(a, raised)) /\ NoHistory
    \/ (\E o \in ImageOutcomes : TaskImage(o)) /\ NoHistory
    \/ TaskTag /\ NoHistory
    \/ (\E raised \in BOOLEAN : TaskLoad(raised)) /\ NoHistory
    \/ (\E raised \in BOOLEAN : TaskCommit(raised)) /\ NoHistory
    \/ TaskRollback /\ NoHistory
    \/ TaskExit /\ NoHistory

SpecEnrich == InitEnrich /\ [][EnrichNext]_vars

----------------------------------------------------------------------------
(* Reading (SpecRead): the two public listings, GET and DELETE by any id, *)
(* of rows that exist and of ids that were never stored, next to the      *)
(* clock, the sweep and the enrichment.                                   *)

ReadMaxIds == 2
ReadMaxViews == 1
ReadMaxLimit == 2

PublicDreamsByFlag(table, t) ==
    {id \in DOMAIN table : table[id].is_public /\ table[id].is_visible}

(* dreams.py 128-137: the WHERE clause of the public stream. *)
PublicDreams(table, t) ==
    {id \in DOMAIN table :
        table[id].is_public /\ table[id].is_visible /\ table[id].expires_at > t}

(* moments.py 122-130 *)
LiveMoments(table, t) ==
    {id \in DOMAIN table : table[id].is_visible /\ table[id].expires_at > t}

(* ORDER BY created_at DESC: every order of the ids that puts a later    *)
(* created_at first; rows of one instant come in either order.            *)
NewestFirst(table, ids) ==
    {s \in [1..Cardinality(ids) -> ids] :
        /\ \A i, j \in DOMAIN s : i # j => s[i] # s[j]
        /\ \A i, j \in DOMAIN s : i < j => table[s[i]].created_at >= table[s[j]].created_at}

(* OFFSET skip LIMIT limit *)
Page(s, skip, limit) == SubSeq(s, skip + 1, Min(Len(s), skip + limit))

Listed(op, skip, limit, items) ==
    [Answer(op, "u1", 0, 200) EXCEPT !.skip = skip, !.limit = limit, !.items = items]

(* dreams.py 118-143 *)
GetDreams(r, skip, limit) ==
    /\ Free(r)
    /\ \E s \in NewestFirst(dreams, PublicDreams(dreams, now)) :
          req' = [req EXCEPT ![r] = Listed("get_dreams", skip, limit, Page(s, skip, limit))]
    /\ UNCHANGED <<now, aiEnabled, dreams, moments, nextId, tasks, channel, sweep, sc,
                   manager, listener, sockets, moderation, worker, momentTtl,
                   account, login>>

(* moments.py 112-136 *)
GetMoments(r, skip, limit) ==
    /\ Free(r)
    /\ \E s \in NewestFirst(moments, LiveMoments(moments, now)) :
          req' = [req EXCEPT ![r] = Listed("get_moments", skip, limit, Page(s, skip, limit))]
    /\ UNCHANGED <<now, aiEnabled, dreams, moments, nextId, tasks, channel, sweep, sc,
                   manager, listener, sockets, moderation, worker, momentTtl,
                   account, login>>

ReadTimes == {0, MOMENT_TTL_SECONDS, DAY}
ReadIds == 1..ReadMaxIds
ReadPages == {<<0, ReadMaxLimit>>, <<1, 1>>}
ReadCanInsert == nextId <= ReadMaxIds
ReadCanView(table, id) == id \in DOMAIN table => table[id].view_count < ReadMaxViews

InitRead == InitStore /\ aiEnabled = TRUE /\ sc = ScIdle

ReadNext ==
    \/ Quiet /\ Tick(ReadTimes) /\ NoHistory
    \/ /\ Quiet /\ ReadCanInsert
       /\ \E pub \in BOOLEAN : CreateDreamModerate(1, "u1", 1, pub, FALSE)
       /\ NoHistory
    \/ CreateDreamQuota(1) /\ NoHistory
    \/ CreateDreamInsert(1) /\ NoHistory
    \/ Quiet /\ ReadCanInsert /\ CreateMomentModerate(1, "u1", NULL, FALSE) /\ NoHistory
    \/ CreateMomentQuota(1) /\ NoHistory
    \/ CreateMomentInsert(1) /\ NoHistory
    \/ CreateMomentPublish(1, TRUE) /\ NoHistory
    \/ (\E u \in Users, id \in ReadIds : DeleteDream(1, u, id)) /\ NoHistory
    \/ (\E u \in Users, id \in ReadIds : ReadCanView(dreams, id) /\ GetDreamLoad(1, u, id))
       /\ NoHistory
    \/ GetDreamCommit(1) /\ NoHistory
    \/ (\E id \in ReadIds : ReadCanView(moments, id) /\ GetMomentLoad(1, "u2", id))
       /\ NoHistory
    \/ GetMomentCommit(1) /\ NoHistory
    \/ (\E page \in ReadPages : GetDreams(1, page[1], page[2])) /\ NoHistory
    \/ (\E page \in ReadPages : GetMoments(1, page[1], page[2])) /\ NoHistory
    \/ Return(1) /\ NoHistory
    \/ Quiet /\ (\E id \in ReadIds, raised \in BOOLEAN : ProcessDreamAi(id, "gpt", "local", raised))
       /\ NoHistory
    \/ Quiet /\ SweepStart /\ NoHistory
    \/ SweepSelectMoments /\ NoHistory
    \/ SweepSelectDreams /\ NoHistory
    \/ SweepCommit /\ NoHistory
    \/ SweepFail /\ NoHistory
    \/ SweepExit /\ NoHistory

SpecRead == InitRead /\ [][ReadNext]_vars

----------------------------------------------------------------------------
(* A deployment whose MOMENT_TTL_SECONDS is zero or negative (SpecTtl):  *)
(* the setting is a plain int (config.py 31) that nothing validates.      *)

TtlMaxIds == 2

NonPositiveTtls == {0, -1}
TtlTimes == {0, 1, 2}
TtlCanInsert == nextId <= TtlMaxIds

InitTtl == EmptyStore /\ momentTtl \in NonPositiveTtls /\ aiEnabled = TRUE /\ sc = ScIdle

TtlNext ==
    \/ Tick(TtlTimes) /\ NoHistory
    \/ /\ Quiet /\ TtlCanInsert
       /\ \E cap \in {NULL, "sky"} : CreateMomentModerate(1, "u1", cap, FALSE)
       /\ NoHistory
    \/ CreateMomentQuota(1) /\ NoHistory
    \/ CreateMomentInsert(1) /\ NoHistory
    \/ CreateMomentPublish(1, TRUE) /\ NoHistory
    \/ Return(1) /\ NoHistory
    \/ (\E id \in DOMAIN moments, raised \in BOOLEAN : ProcessMomentAi(id, raised)) /\ NoHistory
    \/ SweepStart /\ NoHistory
    \/ SweepSelectMoments /\ NoHistory
    \/ SweepSelectDreams /\ NoHistory
    \/ SweepCommit /\ NoHistory
    \/ SweepFail /\ NoHistory
    \/ SweepExit /\ NoHistory

SpecTtl == InitTtl /\ [][TtlNext]_vars

----------------------------------------------------------------------------
(* The demo-content generator's rows next to the create requests' of one *)
(* owner, with the quota in reach (SpecDemo).                             *)

DemoMaxIds == 4
DemoMaxGenerated == 1
DemoMaxViews == 1

(* generate_daily_content.py 102-149: a moment of the system user that   *)
(* expires timedelta(seconds=86400) after its creation, tagged inline in *)
(* a second commit; tagged = FALSE: that commit raised and was rolled     *)
(* back, the row of the first commit stays.                               *)
GenerateDemoMoment(cap, tagged) ==
    /\ moments' = Insert(moments, nextId,
                    [user_id |-> "DreamCapture_AI", caption |-> cap, is_visible |-> TRUE,
                     created_at |-> now, expires_at |-> now + DAY, view_count |-> 0,
                     ai_tags |-> IF tagged THEN AnalyzeMoment(cap) ELSE NULL])
    /\ nextId' = nextId + 1
    /\ UNCHANGED <<now, aiEnabled, dreams, req, tasks, channel, sweep, sc,
                   manager, listener, sockets, moderation, worker, momentTtl,
                   account, login>>

DemoTimes == {0, MOMENT_TTL_SECONDS}
DemoCanGenerate == nextId <= DemoMaxGenerated
DemoCanAsk == nextId <= DemoMaxIds

InitDemo == InitStore /\ aiEnabled = TRUE /\ sc = ScIdle

DemoNext ==
    \/ Quiet /\ Tick(DemoTimes) /\ NoHistory
    \/ Quiet /\ DemoCanAsk /\ CreateDreamModerate(1, "u1", 1, TRUE, FALSE) /\ NoHistory
    \/ CreateDreamQuota(1) /\ NoHistory
    \/ CreateDreamInsert(1) /\ NoHistory
    \/ /\ Quiet
       /\ \E id \in DOMAIN dreams :
             dreams[id].view_count < DemoMaxViews /\ GetDreamLoad(1, "u2", id)
       /\ NoHistory
    \/ GetDreamCommit(1) /\ NoHistory
    \/ Quiet /\ (\E id \in DOMAIN dreams : ProcessDreamAi(id, "gpt", "local", FALSE))
       /\ NoHistory
    \/ Quiet /\ DemoCanAsk /\ CreateMomentModerate(1, "u1", NULL, FALSE) /\ NoHistory
    \/ CreateMomentQuota(1) /\ NoHistory
    \/ CreateMomentInsert(1) /\ NoHistory
    \/ CreateMomentPublish(1, TRUE) /\ NoHistory
    \/ /\ Quiet /\ DemoCanGenerate
       /\ \E tagged \in BOOLEAN : GenerateDemoMoment("sky", tagged)
       /\ NoHistory
    \/ /\ Quiet
       /\ \E id \in DOMAIN moments :
             moments[id].view_count < DemoMaxViews /\ GetMomentLoad(1, "u2", id)
       /\ NoHistory
    \/ GetMomentCommit(1) /\ NoHistory
    \/ Return(1) /\ NoHistory
    \/ Quiet /\ SweepStart /\ NoHistory
    \/ Quiet /\ SweepSelectMoments /\ NoHistory
    \/ Quiet /\ SweepSelectDreams /\ NoHistory
    \/ Quiet /\ SweepCommit /\ NoHistory
    \/ Quiet /\ SweepFail /\ NoHistory
    \/ Quiet /\ SweepExit /\ NoHistory

SpecDemo == InitDemo /\ [][DemoNext]_vars

----------------------------------------------------------------------------
(* Concurrent views (SpecViews): GET requests on both slots, their load  *)
(* and their commit interleaving freely.  A GET's answer stays in its     *)
(* slot, so the answered GETs can be counted.                             *)

ViewMaxIds == 1

ViewTimes == {0, MOMENT_TTL_SECONDS}
ViewIds == 1..(ViewMaxIds + 1)
ViewCanInsert == nextId <= ViewMaxIds

InitViews == InitStore /\ aiEnabled = FALSE /\ sc = ScIdle

ViewsNext ==
    \/ Quiet /\ Tick(ViewTimes) /\ NoHistory
    \/ /\ Quiet /\ ViewCanInsert
       /\ \E pub \in BOOLEAN : CreateDreamModerate(1, "u1", 7, pub, FALSE)
       /\ NoHistory
    \/ CreateDreamQuota(1) /\ NoHistory
    \/ CreateDreamInsert(1) /\ NoHistory
    \/ Quiet /\ ViewCanInsert /\ CreateMomentModerate(1, "u1", NULL, FALSE) /\ NoHistory
    \/ CreateMomentQuota(1) /\ NoHistory
    \/ CreateMomentInsert(1) /\ NoHistory
    \/ CreateMomentPublish(1, TRUE) /\ NoHistory
    \/ req[1].op \in {"create_dream", "create_moment"} /\ Return(1) /\ NoHistory
    \/ (\E r \in Reqs, id \in ViewIds : GetDreamLoad(r, "u2", id)) /\ NoHistory
    \/ (\E r \in Reqs : GetDreamCommit(r)) /\ NoHistory
    \/ (\E r \in Reqs, id \in ViewIds : GetMomentLoad(r, "u2", id)) /\ NoHistory
    \/ (\E r \in Reqs : GetMomentCommit(r)) /\ NoHistory
    \/ (\E r \in Reqs, page \in ReadPages : GetDreams(r, page[1], page[2])) /\ NoHistory
    \/ (\E r \in Reqs, page \in ReadPages : GetMoments(r, page[1], page[2])) /\ NoHistory

SpecViews == InitViews /\ [][ViewsNext]_vars

----------------------------------------------------------------------------
(* Properties of the content lifecycle (Spec) *)

StaysHidden(t) ==
    \A id \in DOMAIN t \cap DOMAIN t' : ~t[id].is_visible => ~t'[id].is_visible

(* C1: once a dream's or a moment's is_visible is false, it is false in  *)
(* every later state, whatever creations, sweep steps, enrichment        *)
(* write-backs, view-count writes and deletes follow.                    *)
C1_VisibilityMonotone == [][StaysHidden(dreams) /\ StaysHidden(moments)]_vars

(* A hidden dream and a hidden moment that both carry enrichment results. *)
C1_Witness ==
    \E d \in DOMAIN dreams, m \in DOMAIN moments :
        /\ ~dreams[d].is_visible /\ dreams[d].ai_analysis # NULL
        /\ ~moments[m].is_visible /\ moments[m].ai_tags # NULL

SweepCommitted == sweep.pc = "commit" /\ sweep'.pc = "done" /\ sweep'.status = "ok"

SweptTable(t) ==
    \A id \in DOMAIN t :
        /\ id \in DOMAIN t'
        /\ ~(t'[id].is_visible /\ t'[id].expires_at <= sweep.now)
        /\ t[id].expires_at > sweep.now => t'[id].is_visible = t[id].is_visible

(* C2: when a sweep that read the clock at sweep.now commits, no row of  *)
(* either table is left visible with expires_at <= sweep.now, and every  *)
(* row with expires_at > sweep.now keeps the flag it had.                *)
C2_SweepPostcondition == [][SweepCommitted => SweptTable(dreams) /\ SweptTable(moments)]_vars

(* A sweep has returned after hiding a row at the very instant of its   *)
(* expiry, and a row that expires later is still visible.               *)
C2_Witness ==
    /\ sweep.pc = "done" /\ sweep.status = "ok"
    /\ sweep.hidden_moments + sweep.hidden_dreams > 0
    /\ \E m \in DOMAIN moments :
          ~moments[m].is_visible /\ moments[m].expires_at = sweep.now
    /\ \E d \in DOMAIN dreams :
          dreams[d].is_visible /\ dreams[d].expires_at > sweep.now

DreamExpiryOk(row) ==
    /\ row.ttl_days \in DreamTiers
    /\ row.expires_at = row.created_at + row.ttl_days * DAY

DreamExpiryKept ==
    \A id \in DOMAIN dreams \cap DOMAIN dreams' :
        /\ dreams'[id].created_at = dreams[id].created_at
        /\ dreams'[id].ttl_days = dreams[id].ttl_days
        /\ dreams'[id].expires_at = dreams[id].expires_at

(* C3: every stored dream has ttl_days in {1, 7, 30} and expires_at =    *)
(* created_at + ttl_days days, for every ttl_days a request can carry,   *)
(* and no step changes created_at, ttl_days or expires_at of a row.      *)
C3_DreamExpiry ==
    /\ [](\A id \in DOMAIN dreams : DreamExpiryOk(dreams[id]))
    /\ [][DreamExpiryKept]_vars

(* A request that asked for 15 days got the one-day tier; its row has   *)
(* since been enriched, viewed and hidden.                              *)
C3_Witness ==
    \E d \in DOMAIN dreams :
        /\ dreams[d].user_id = "u1" /\ dreams[d].ttl_days = 1
        /\ dreams[d].ai_analysis # NULL /\ dreams[d].view_count > 0
        /\ ~dreams[d].is_visible

----------------------------------------------------------------------------
(* Properties of the publish quotas (SpecQuotaSeq, SpecQuota) *)

DreamsSinceMidnight(u) ==
    {id \in DOMAIN dreams :
        dreams[id].user_id = u /\ dreams[id].created_at >= DAY * (now \div DAY)}

MomentsInLastHour(u) ==
    {id \in DOMAIN moments :
        moments[id].user_id = u /\ now - moments[id].created_at <= HOUR}

CountStep(r, op) == req[r].pc = "quota" /\ req[r].op = op /\ req'[r] # req[r]
InsertStep(r, op) == req[r].pc = "insert" /\ req[r].op = op /\ req'[r] # req[r]
Rejected(r) == req'[r].pc = "done" /\ req'[r].status = 429
Admitted(r) == req'[r].pc = "insert"

(* C4: a dream create request counted while its owner has exactly N      *)
(* dreams created since 00:00 UTC of the current day is answered         *)
(* RateLimited and no row is inserted; one counted while the owner has   *)
(* no dream since the last 00:00 UTC is admitted and its row is stored,  *)
(* whatever the age of the owner's earlier dreams.                       *)
C4_DailyQuota ==
    [][\A r \in Reqs :
         /\ CountStep(r, "create_dream") =>
              /\ Cardinality(DreamsSinceMidnight(req[r].user)) = MAX_DREAMS_PER_DAY
                   => Rejected(r) /\ dreams' = dreams
              /\ DreamsSinceMidnight(req[r].user) = {} => Admitted(r)
         /\ InsertStep(r, "create_dream") =>
              /\ req'[r].status = 201
              /\ DOMAIN dreams' = DOMAIN dreams \cup {req'[r].id}
              /\ req'[r].id \notin DOMAIN dreams
              /\ dreams'[req'[r].id].user_id = req[r].user]_vars

(* The owner was refused at N dreams of the new day, having been admitted *)
(* on that day while holding a dream less than 24 hours old.             *)
C4_Witness ==
    /\ now = DAY
    /\ req[1].pc = "done" /\ req[1].op = "create_dream"
    /\ req[1].user = "u1" /\ req[1].status = 429
    /\ Cardinality({id \in DOMAIN dreams : dreams[id].user_id = "u1"
                                           /\ dreams[id].created_at = DAY})
         = MAX_DREAMS_PER_DAY
    /\ \E id \in DOMAIN dreams :
          /\ dreams[id].user_id = "u1"
          /\ dreams[id].created_at < DAY
          /\ DAY - dreams[id].created_at < 24 * HOUR

CreatedOn(u, day) ==
    {id \in DOMAIN dreamLog :
        dreamLog[id].user_id = u /\ dreamLog[id].created_at \div DAY = day}

(* C5: with one request at a time, an owner's successful dream creations *)
(* whose creation instant falls in one UTC calendar day number at most N. *)
C5_DailyCreations ==
    \A u \in Users, day \in {0, 1} :
        Cardinality(CreatedOn(u, day)) <= MAX_DREAMS_PER_DAY

(* C6: a moment create request counted at instant t is admitted exactly  *)
(* when its owner has fewer than M moments with created_at >= t - 60     *)
(* minutes, and is answered RateLimited otherwise.                       *)
C6_HourlyQuota ==
    [][\A r \in Reqs :
         CountStep(r, "create_moment") =>
           LET n == Cardinality(MomentsInLastHour(req[r].user))
           IN  /\ Admitted(r) <=> n < MAX_MOMENTS_PER_HOUR
               /\ ~Admitted(r) => Rejected(r) /\ moments' = moments]_vars

(* The owner was refused with M moments in the window, one of them       *)
(* exactly 60 minutes old, and holds one older moment that did not stop  *)
(* the last admission.                                                   *)
C6_Witness ==
    /\ now = HOUR + 1
    /\ req[1].pc = "done" /\ req[1].op = "create_moment"
    /\ req[1].user = "u1" /\ req[1].status = 429
    /\ \E old, edge, last \in DOMAIN moments :
          /\ moments[old].user_id = "u1" /\ moments[old].created_at = now - HOUR - 1
          /\ moments[edge].user_id = "u1" /\ moments[edge].created_at = now - HOUR
          /\ moments[last].user_id = "u1" /\ moments[last].created_at = now
    /\ Cardinality({id \in DOMAIN moments : moments[id].user_id = "u1"}) =
         MAX_MOMENTS_PER_HOUR + 1

Racers(u, op) == Max(1, overlap[u][op])

C7_Bounded ==
    \A u \in Users :
       /\ Cardinality(DreamsSinceMidnight(u)) <=
            MAX_DREAMS_PER_DAY + Racers(u, "create_dream") - 1
       /\ Cardinality(MomentsInLastHour(u)) <=
            MAX_MOMENTS_PER_HOUR + Racers(u, "create_moment") - 1

C7_LateRejected ==
    \A r \in Reqs :
       /\ CountStep(r, "create_dream")
            /\ Cardinality(DreamsSinceMidnight(req[r].user)) >= MAX_DREAMS_PER_DAY
          => Rejected(r)
       /\ CountStep(r, "create_moment")
            /\ Cardinality(MomentsInLastHour(req[r].user)) >= MAX_MOMENTS_PER_HOUR
          => Rejected(r)

(* C7: when at most k create requests of one owner are in flight at once, *)
(* the owner's rows inside the quota window never number more than       *)
(* limit + k - 1, and a request counted when limit rows of the window    *)
(* are committed is answered RateLimited.                                *)
C7_RaceOvershoot == [](C7_Bounded) /\ [][C7_LateRejected]_vars

(* Two overlapping requests both passed the count: limit + 1 rows.       *)
C7_Witness ==
    /\ Quiet
    /\ overlap["u1"]["create_dream"] = 2
    /\ Cardinality(DreamsSinceMidnight("u1")) = MAX_DREAMS_PER_DAY + 1

----------------------------------------------------------------------------
(* Properties of the resonance scorer (SpecScorer) *)

Returned == sc.pc = "returned"
CommonCount == Cardinality(Range(sc.dream_tags) \cap Range(sc.moment_tags))

(* C8: whatever the tag lists and whatever became of the refinement, the *)
(* returned score is an integer between 0 and 100.                       *)
C8_ScoreInRange ==
    Returned => sc.result.has_score /\ sc.result.score \in 0..100

(* C9: when the refinement does not replace the result (no client, not   *)
(* attempted, or failed) the returned score is min(100, 20 * n) for n    *)
(* distinct common tags.                                                 *)
C9_BaseScore ==
    Returned /\ sc.outcome \in {"absent", "not_attempted", "failed"}
        => sc.result.score = Min(100, 20 * CommonCount)

(* C10: the refinement call has been made exactly when there are at      *)
(* least two common tags (base score above 20), the caption is present   *)
(* and non-empty, and the client is available.                           *)
C10_RefinementCalled ==
    sc.pc \in {"awaiting", "returned"} =>
        (sc.called <=> /\ 20 * CommonCount > 20
                       /\ sc.moment_caption # NULL /\ sc.moment_caption # ""
                       /\ sc.openai_client)

(* The call was made at exactly two common tags and its reply returned.  *)
C10_Witness ==
    /\ Returned /\ sc.called /\ sc.outcome = "replaced"
    /\ CommonCount = 2

(* The deterministic base tuple of the scorer's inputs. *)
BaseTuple ==
    [has_score |-> TRUE,
     score |-> Min(100, 20 * CommonCount),
     has_explanation |-> TRUE,
     explanation |->
        IF CommonCount > 0
        THEN [text |-> "Shared elements",
              tags |-> Range(sc.dream_tags) \cap Range(sc.moment_tags)]
        ELSE [text |-> "Subtle connection", tags |-> {}]]

(* C11: when the refinement call was made and raised, the scorer has     *)
(* returned normally and its score and explanation are exactly the base  *)
(* tuple of the same inputs.                                             *)
C11_FailedRefinement ==
    /\ sc.pc = "returned" /\ sc.called /\ sc.reply.raised => sc.result = BaseTuple
    /\ sc.reply.raised => sc.pc = "returned"

(* The call raised with every tag shared: the capped base score stands.  *)
C11_Witness ==
    /\ Returned /\ sc.called /\ sc.reply.raised
    /\ CommonCount = MaxTags
    /\ sc.result.score = 100

Malformed(reply) ==
    \/ ~reply.has_score
    \/ ~reply.has_explanation
    \/ reply.score \notin 0..100

(* C12: when the refinement call was made and answered with a parsable   *)
(* but malformed result (no score, no explanation, or a score outside    *)
(* 0..100), the scorer returns the base tuple, not the malformed result. *)
C12_MalformedRefinement ==
    Returned /\ sc.called /\ ~sc.reply.raised /\ Malformed(sc.reply)
        => sc.result = BaseTuple

----------------------------------------------------------------------------
(* Properties of the live fan-out (SpecFanout, SpecFanoutLive) *)

Events == 1..FanMaxIds
Got(s, e) == e \in Range(sockets[s].received)
Tried(s, e) == e \in Range(sockets[s].attempts)
Broadcast(e) == e \in DOMAIN fan.at_broadcast
BroadcastOver(e) == Broadcast(e) /\ listener.event # e

FanOutDone ==
    \A e \in DOMAIN fan.at_broadcast :
       /\ fan.at_broadcast[e] = {} => \A s \in Sockets : ~Got(s, e)
       /\ BroadcastOver(e) =>
             \A s \in fan.at_broadcast[e] : sockets[s].state = "open" => Got(s, e)

PublishDelivers == channel' # channel => req'[1].status = 201 /\ sockets' = sockets

C14_CommitPublishDeliver ==
    /\ \A i \in DOMAIN channel : channel[i] \in DOMAIN moments
    /\ \A s \in Sockets :
          \A e \in Range(sockets[s].attempts) \cup Range(sockets[s].received) :
             \E i \in 1..listener.cursor : channel[i] = e

C14_Witness ==
    \E s \in Sockets, e \in DOMAIN moments : Got(s, e) /\ BroadcastOver(e)

SendRaised ==
    /\ listener.pc = "sending"
    /\ sockets'[listener.current].failed # sockets[listener.current].failed

C15_Dropped ==
    SendRaised =>
       /\ listener.current \notin manager'
       /\ listener'.pc = "broadcast"
       /\ listener'.snapshot \ listener'.done =
            (listener.snapshot \ listener.done) \ {listener.current}

C15_OneAttempt ==
    \A s \in Sockets :
       /\ \A i, j \in DOMAIN sockets[s].attempts :
             sockets[s].attempts[i] = sockets[s].attempts[j] => i = j
       /\ \A e \in DOMAIN fan.at_broadcast :
             BroadcastOver(e) /\ s \in fan.at_broadcast[e] => Tried(s, e)

(* C15: a send that raises removes the connection from the live set and  *)
(* leaves the rest of the broadcast as it was; no connection is sent the *)
(* same event twice, and when the broadcast is over every connection of  *)
(* the live set at its start has had its send attempt.                   *)
C15_FailedSend == [](C15_OneAttempt) /\ [][C15_Dropped]_vars

(* A send raised, the connection is out of the live set, and the other   *)
(* connection of the broadcast has the event.                            *)
C15_Witness ==
    \E e \in DOMAIN fan.at_broadcast, s1, s2 \in Sockets :
       /\ BroadcastOver(e) /\ fan.at_broadcast[e] = {s1, s2} /\ s1 # s2
       /\ e \in sockets[s1].failed /\ s1 \notin manager
       /\ Got(s2, e)

(* C17: a connection is sent, and receives, only events whose broadcast  *)
(* began while it was in the live set.                                   *)
C17_NoReplay ==
    \A s \in Sockets :
       \A e \in Range(sockets[s].attempts) \cup Range(sockets[s].received) :
          Broadcast(e) /\ s \in fan.at_broadcast[e]

(* A connection that joined during the broadcast of one event missed it  *)
(* and received the next.                                                *)
C17_Witness ==
    \E e1, e2 \in DOMAIN fan.at_broadcast, s1, s2 \in Sockets :
       /\ BroadcastOver(e1) /\ Got(s1, e1)
       /\ s2 \notin fan.at_broadcast[e1] /\ ~Got(s2, e1)
       /\ s2 \in fan.at_publish[e2] /\ Got(s2, e2)

(* C16: while the listener runs, every connection that was in the live   *)
(* set when the broadcast of an event began and stays healthy eventually *)
(* receives that event, whatever happens to the send to any other        *)
(* connection.                                                           *)
C16_SlowSubscriber ==
    \A s \in Sockets, e \in Events :
       (Broadcast(e) /\ s \in fan.at_broadcast[e])
          ~> (Got(s, e) \/ sockets[s].state # "open" \/ listener.pc = "stopped")

----------------------------------------------------------------------------
(* Properties of the create path (SpecCreate) *)

Creates == {"create_dream", "create_moment"}
Stored == DOMAIN dreams \cup DOMAIN moments
Answered(r) == req[r].pc = "done" /\ req[r].op \in Creates

(* C18: an answered create request that returned an error has left no    *)
(* row, and one that returned success has left its row.                  *)
C18_CreateAtomic ==
    \A r \in Reqs :
       Answered(r) =>
          /\ req[r].status # 201 => req[r].id \notin Stored
          /\ req[r].status = 201 => req[r].id \in Stored

Refused(r) ==
    /\ req[r].pc \in {"idle", "quota"}
    /\ req'[r].pc = "done" /\ req'[r].op \in Creates
    /\ req'[r].status \in {400, 429}

(* C19: a create request is answered ContentRejected only at its         *)
(* moderation step and RateLimited only at its quota step, and the step  *)
(* that refuses it inserts no row, publishes no event and schedules no   *)
(* enrichment task.                                                      *)
C19_RefusedBeforePersistence ==
    [][\A r \in Reqs :
         /\ Refused(r) =>
              /\ dreams' = dreams /\ moments' = moments /\ nextId' = nextId
              /\ channel' = channel /\ tasks' = tasks
              /\ req'[r].id = 0
              /\ req'[r].status = 400 <=> req[r].pc = "idle"
         /\ req[r].pc \in {"insert", "publish"} /\ req'[r].pc = "done"
              => req'[r].status \notin {400, 429}]_vars

(* One request refused by moderation and one by the quota, after others  *)
(* were stored, published and scheduled.                                 *)
C19_Witness ==
    /\ \E r \in Reqs : Answered(r) /\ req[r].status = 400
    /\ \E r \in Reqs : Answered(r) /\ req[r].status = 429
    /\ tasks # {} /\ channel # <<>>

ModerationOut == ~moderation.openai_client \/ ~moderation.api_up
Arrives(r) == req[r].pc = "idle" /\ req'[r].pc # "idle" /\ req'[r].op \in Creates

(* C20: a create request that arrives while the moderation client is     *)
(* absent or its call fails goes on to the quota check, as unflagged     *)
(* content does; it is never refused.                                    *)
C20_ModerationFailsOpen ==
    [][\A r \in Reqs : Arrives(r) /\ ModerationOut => req'[r].pc = "quota"]_vars

(* With the client configured and the API down, a captioned moment was   *)
(* stored, answered 201 and scheduled for enrichment.                    *)
C20_Witness ==
    /\ moderation.openai_client /\ ~moderation.api_up
    /\ \E r \in Reqs :
          /\ Answered(r) /\ req[r].status = 201 /\ req[r].op = "create_moment"
          /\ [kind |-> "moment", id |-> req[r].id] \in tasks

----------------------------------------------------------------------------
(* Properties of the background enrichment (SpecEnrich) *)

Scheduled ==
    tasks \cup (IF worker.pc = "idle" THEN {}
                ELSE {[kind |-> worker.kind, id |-> worker.id]})

Creating(id) ==
    \E r \in Reqs : req[r].pc \notin {"idle", "done"} /\ req[r].op \in Creates
                    /\ req[r].id = id

CommittedFirst == \A t \in Scheduled : t.id < nextId /\ ~Creating(t.id)

DreamEnrichment(row) == <<row.ai_analysis, row.ai_tags, row.generated_image_url>>
MomentEnrichment(row) == <<row.ai_tags>>

WritesOnlyCommitted ==
    /\ \A id \in DOMAIN dreams' :
          IF id \in DOMAIN dreams
          THEN DreamEnrichment(dreams'[id]) # DreamEnrichment(dreams[id])
                  => WorkerAt("commit", "dream") /\ worker.id = id
          ELSE DreamEnrichment(dreams'[id]) = <<NULL, NULL, NULL>>
    /\ \A id \in DOMAIN moments' :
          IF id \in DOMAIN moments
          THEN MomentEnrichment(moments'[id]) # MomentEnrichment(moments[id])
                  => WorkerAt("commit", "moment") /\ worker.id = id
          ELSE MomentEnrichment(moments'[id]) = <<NULL>>

AnswerStands == worker' # worker => req' = req

(* C21: a task is scheduled or running only for an item whose row was    *)
(* committed and whose create request is no longer in progress; only the *)
(* task's commit writes enrichment fields, and only to a row that was     *)
(* there before; no step of a task changes the answer of a request.       *)
C21_AfterCommit == [](CommittedFirst) /\ [][WritesOnlyCommitted /\ AnswerStands]_vars

(* The create request was answered 201 and the item's enrichment failed. *)
C21_Witness ==
    /\ worker.outcome = "failed"
    /\ req[1].pc = "done" /\ req[1].op = "create_dream"
    /\ req[1].status = 201 /\ req[1].id = worker.id

TaskWrote == worker.pc = "commit" /\ worker'.outcome = "ok"

(* C22: every step of a task other than its successful commit, so every  *)
(* step of a task that ends in the rollback, leaves every row of both     *)
(* tables in place with every field as it was.                            *)
C22_FailedTaskFrame ==
    [][(worker' # worker /\ ~TaskWrote) => UNCHANGED <<dreams, moments>>]_vars

(* A dream's task failed and the row is there, not enriched. *)
C22_Witness ==
    /\ worker.outcome = "failed" /\ worker.kind = "dream"
    /\ worker.id \in DOMAIN dreams
    /\ DreamEnrichment(dreams[worker.id]) = <<NULL, NULL, NULL>>

ImageFailed(w) == w.image_outcome \in {"no_client", "generate_raised"}

ImageFailureGoesOn ==
    (WorkerAt("image", "dream") /\ worker' # worker /\ ImageFailed(worker'))
        => worker'.pc = "load" /\ worker'.analysis = worker.analysis

AnalysisStoredWithoutImage ==
    (TaskWrote /\ worker.kind = "dream" /\ ImageFailed(worker))
        => /\ worker.id \in DOMAIN dreams'
           /\ dreams'[worker.id].ai_analysis = worker.analysis
           /\ dreams'[worker.id].ai_tags = AnalysisTags(worker.analysis)
           /\ dreams'[worker.id].generated_image_url = NULL

(* C23: when the image generation fails (no client, or the generation    *)
(* call raises) the task goes on with the analysis it has, and its commit *)
(* stores the analysis and its tags and leaves the image reference null.  *)
C23_TagsWithoutImage == [][ImageFailureGoesOn /\ AnalysisStoredWithoutImage]_vars

(* A stored analysis from the model next to a failed image generation. *)
C23_Witness ==
    /\ worker.outcome = "ok" /\ worker.image_outcome = "generate_raised"
    /\ worker.id \in DOMAIN dreams
    /\ dreams[worker.id].ai_analysis = "gpt"
    /\ dreams[worker.id].generated_image_url = NULL

RerunDream(row, a, img) == DreamWriteBack(DreamWriteBack(row, a, img), a, img)
RerunMoment(row, tags) == MomentWriteBack(MomentWriteBack(row, tags), tags)

SameResultsSameRow ==
    /\ \A id \in DOMAIN dreams, a \in Analyses, o \in ImageOutcomes :
          RerunDream(dreams[id], a, GenerateDreamImage(o))
              = DreamWriteBack(dreams[id], a, GenerateDreamImage(o))
    /\ \A id \in DOMAIN moments :
          RerunMoment(moments[id], AnalyzeMoment(moments[id].caption))
              = MomentWriteBack(moments[id], AnalyzeMoment(moments[id].caption))

SecondRunChangesNothing ==
    (worker.outcome = "ok" /\ worker.id \in DOMAIN WorkerTable)
        => WorkerWrite(WorkerTable) = WorkerTable

C25_OwnStorage ==
    \A id \in DOMAIN dreams : dreams[id].generated_image_url \in {NULL, "local"}

----------------------------------------------------------------------------
(* Properties of reading and deleting (SpecRead) *)

Arrived(r, op) == Free(r) /\ req'[r].op = op
Replied(r, code) == req'[r].pc = "done" /\ req'[r].status = code

GetChecks(op, table) ==
    \A r \in Reqs :
        Arrived(r, op) =>
            /\ (req'[r].id \in DOMAIN table /\ table[req'[r].id].expires_at <= now)
                   => Replied(r, 410)
            /\ Replied(r, 404) <=> req'[r].id \notin DOMAIN table
            /\ Replied(r, 410) => UNCHANGED <<dreams, moments>>

(* C26: a GET by id of a dream or moment whose row exists with            *)
(* expires_at <= now is answered 410, hidden or not, and the answer ends   *)
(* the request with no write; 404 is the answer exactly when no row has   *)
(* the id.                                                                *)
C26_ExpiredIsGone == [][GetChecks("get_dream", dreams) /\ GetChecks("get_moment", moments)]_vars

(* 410 for a dream the sweep has hidden, its view counter still zero. *)
C26_Witness ==
    \E r \in Reqs :
        /\ req[r].pc = "done" /\ req[r].op = "get_dream" /\ req[r].status = 410
        /\ req[r].id \in DOMAIN dreams
        /\ ~dreams[req[r].id].is_visible
        /\ dreams[req[r].id].view_count = 0

FullPage(f, n) == f.skip = 0 /\ f.limit >= n

ShownDreams == {id \in DOMAIN dreams : /\ dreams[id].is_visible
                                       /\ dreams[id].is_public
                                       /\ ~(dreams[id].expires_at <= now)}
ShownMoments == {id \in DOMAIN moments : /\ moments[id].is_visible
                                         /\ ~(moments[id].expires_at <= now)}

ListingOf(op, shown) ==
    \A r \in Reqs :
        Arrived(r, op) =>
            /\ Replied(r, 200)
            /\ Range(req'[r].items) \subseteq shown
            /\ FullPage(req'[r], Cardinality(shown)) => Range(req'[r].items) = shown

(* C27: the public dream listing and the moment listing answer with rows *)
(* that are visible, not expired at the instant of the request and, for   *)
(* dreams, public; a first page long enough holds every such row.         *)
C27_Listings == [][ListingOf("get_dreams", ShownDreams) /\ ListingOf("get_moments", ShownMoments)]_vars

(* A listing that left out a public dream the sweep has yet to hide. *)
C27_Witness ==
    \E r \in Reqs, id \in DOMAIN dreams :
        /\ req[r].pc = "done" /\ req[r].op = "get_dreams" /\ FullPage(req[r], ReadMaxIds)
        /\ dreams[id].is_visible /\ dreams[id].is_public
        /\ dreams[id].expires_at <= now
        /\ id \notin Range(req[r].items)
        /\ sweep.pc = "idle"

SameButVisibility(old, new) ==
    /\ DOMAIN new = DOMAIN old
    /\ \A id \in DOMAIN old : [new[id] EXCEPT !.is_visible = old[id].is_visible] = old[id]

(* C28: a step of the sweep removes no row and adds none, and changes no *)
(* field of any dream or moment other than is_visible.                    *)
C28_SweepFrame ==
    [][sweep' # sweep => SameButVisibility(dreams, dreams') /\ SameButVisibility(moments, moments')]_vars

(* A sweep has hidden an enriched dream. *)
C28_Witness ==
    /\ sweep.pc = "done" /\ sweep.status = "ok" /\ sweep.hidden_dreams > 0
    /\ \E id \in DOMAIN dreams : ~dreams[id].is_visible /\ dreams[id].ai_analysis # NULL

DeleteAnswers ==
    \A r \in Reqs :
        Arrived(r, "delete_dream") =>
            LET id == req'[r].id IN
            IF id \notin DOMAIN dreams THEN Replied(r, 404) /\ dreams' = dreams
            ELSE IF dreams[id].user_id # req'[r].user THEN Replied(r, 403) /\ dreams' = dreams
            ELSE Replied(r, 204) /\ dreams' = Remove(dreams, id)

RemovedByOwner ==
    \A id \in DOMAIN dreams \ DOMAIN dreams' :
        \E r \in Reqs : /\ Arrived(r, "delete_dream") /\ Replied(r, 204)
                        /\ req'[r].id = id /\ req'[r].user = dreams[id].user_id

(* C29: a dream row leaves the table only in the step of a delete        *)
(* request by its owner, answered 204; a delete by another user is        *)
(* answered 403 and a delete of an unknown id 404, both with the table    *)
(* unchanged; no clock, sweep or enrichment step removes a row.           *)
C29_OwnerDeletes == [][DeleteAnswers /\ RemovedByOwner]_vars

(* Another user's delete was refused and the expired, hidden dream is    *)
(* still there.                                                           *)
C29_Witness ==
    \E r \in Reqs :
        /\ req[r].pc = "done" /\ req[r].op = "delete_dream" /\ req[r].status = 403
        /\ req[r].id \in DOMAIN dreams
        /\ ~dreams[req[r].id].is_visible

----------------------------------------------------------------------------
(* Properties under a moment TTL of zero or less (SpecTtl) *)

AcceptedAnyway ==
    \A r \in Reqs :
        (req[r].pc = "done" /\ req[r].op = "create_moment")
            => req[r].status = 201 /\ req[r].id \in DOMAIN moments

BornExpired ==
    /\ \A id \in DOMAIN moments : moments[id].expires_at <= moments[id].created_at
    /\ \A id \in DOMAIN moments : moments[id].created_at < sweep.now =>
          (sweep.pc = "done" /\ sweep.status = "ok" => ~moments[id].is_visible)

StoredVisible ==
    \A id \in DOMAIN moments' \ DOMAIN moments :
        moments'[id].is_visible /\ moments'[id].created_at = now

SweepTakesIt ==
    sweep.pc = "moments" /\ sweep'.pc = "dreams" =>
        \A id \in DOMAIN moments :
            (moments[id].is_visible /\ moments[id].created_at <= sweep.now)
                => id \in sweep'.moments

SweepHidesIt ==
    SweepCommitted => \A id \in sweep.moments : ~moments'[id].is_visible

(* C30: with MOMENT_TTL_SECONDS zero or negative a create request of a   *)
(* moment is answered 201 with the row stored, visible, and its           *)
(* expires_at no later than its created_at; a sweep that reads the        *)
(* moments after the row was stored selects it, and the sweep's commit    *)
(* hides what it selected.                                                *)
C30_ZeroTtl ==
    [](AcceptedAnyway /\ BornExpired) /\ [][StoredVisible /\ SweepTakesIt /\ SweepHidesIt]_vars

(* A sweep that started at the instant of the creation has hidden the    *)
(* moment, whose create request was answered 201.                         *)
C30_Witness ==
    \E r \in Reqs :
        /\ req[r].pc = "done" /\ req[r].op = "create_moment" /\ req[r].status = 201
        /\ sweep.pc = "done" /\ sweep.status = "ok"
        /\ req[r].id \in DOMAIN moments
        /\ ~moments[req[r].id].is_visible
        /\ moments[req[r].id].created_at = sweep.now

----------------------------------------------------------------------------
(* Properties of the moment's expiry on both creation paths (SpecDemo) *)

ExpiryIsCreationPlusTtl ==
    \A id \in DOMAIN moments :
        moments[id].expires_at = moments[id].created_at + momentTtl

ExpiryKept ==
    \A id \in DOMAIN moments \cap DOMAIN moments' :
        /\ moments'[id].expires_at = moments[id].expires_at
        /\ moments'[id].created_at = moments[id].created_at

(* C31: every moment row, created by the create request or by the demo  *)
(* generator, has expires_at = created_at + MOMENT_TTL_SECONDS, and no    *)
(* step changes either instant of a stored row.                           *)
C31_MomentExpiry == [](ExpiryIsCreationPlusTtl) /\ [][ExpiryKept]_vars

(* What the quota may look at: the creation instants of the owner's rows. *)
OwnStamps(table, u) ==
    {<<id, table[id].created_at>> : id \in {i \in DOMAIN table : table[i].user_id = u}}

CountSince(stamps, t) == Cardinality({st \in stamps : st[2] >= t})

QuotaDecided(r, op) == req[r].pc = "quota" /\ req[r].op = op /\ req'[r].pc # "quota"
Denied(r) == req'[r].pc = "done" /\ req'[r].status = 429

DecidedByStamps ==
    \A r \in Reqs :
        /\ QuotaDecided(r, "create_dream") =>
              (Denied(r) <=> CountSince(OwnStamps(dreams, req[r].user), TodayStart(now))
                                 >= MAX_DREAMS_PER_DAY)
        /\ QuotaDecided(r, "create_moment") =>
              (Denied(r) <=> CountSince(OwnStamps(moments, req[r].user), HourAgo(now))
                                 >= MAX_MOMENTS_PER_HOUR)

(* C34: the quota step admits or denies by the number of the owner's own *)
(* rows of that kind created inside the window and by nothing else:       *)
(* visibility, enrichment, view counts and other owners' rows play no     *)
(* part, so hidden moments still count.                                   *)
C34_QuotaByOwnStamps == [][DecidedByStamps]_vars

(* A moment was denied while every moment of the owner is hidden and the *)
(* system user has rows of both kinds.                                    *)
C34_Witness ==
    \E r \in Reqs :
        /\ req[r].pc = "done" /\ req[r].op = "create_moment" /\ req[r].status = 429
        /\ \A id \in DOMAIN moments :
              moments[id].user_id = req[r].user => ~moments[id].is_visible
        /\ \E id \in DOMAIN moments : moments[id].user_id = "DreamCapture_AI"

----------------------------------------------------------------------------
(* Further properties of the sweep (SpecRead) *)

VisibleDue(table, t) == {id \in DOMAIN table : table[id].is_visible /\ table[id].expires_at <= t}
NothingDue(t) == VisibleDue(moments, t) = {} /\ VisibleDue(dreams, t) = {}

SweptClean == (sweep.pc = "done" /\ sweep.status = "ok") => NothingDue(sweep.now)

RerunIsNoop ==
    (SweepCommitted /\ NothingDue(sweep.now))
        => /\ UNCHANGED <<dreams, moments>>
           /\ sweep'.hidden_moments = 0 /\ sweep'.hidden_dreams = 0

(* C32: a completed sweep leaves no visible row due at its instant, and  *)
(* a sweep that commits on a store with no visible row due at its         *)
(* instant, as a second sweep does when nothing new became due, hides     *)
(* zero items and leaves every row as it was.                             *)
C32_SweepIdempotent == [](SweptClean) /\ [][RerunIsNoop]_vars

(* A sweep went through with nothing to hide on a store whose expired    *)
(* rows an earlier sweep had hidden.                                      *)
C32_Witness ==
    /\ sweep.pc = "done" /\ sweep.status = "ok"
    /\ sweep.hidden_moments = 0 /\ sweep.hidden_dreams = 0
    /\ \E m \in DOMAIN moments : ~moments[m].is_visible /\ moments[m].expires_at <= sweep.now
    /\ \E d \in DOMAIN dreams : ~dreams[d].is_visible /\ dreams[d].expires_at <= sweep.now

HiddenIsExpired(table) ==
    \A id \in DOMAIN table : ~table[id].is_visible => table[id].expires_at <= now

(* C33: every dream and every moment whose is_visible is false has       *)
(* expires_at <= now.                                                     *)
C33_HiddenIsExpired == HiddenIsExpired(dreams) /\ HiddenIsExpired(moments)

(* A dream hidden at the very instant of its expiry, next to a hidden   *)
(* moment that expired long before.                                       *)
C33_Witness ==
    /\ \E d \in DOMAIN dreams : ~dreams[d].is_visible /\ dreams[d].expires_at = now
    /\ \E m \in DOMAIN moments : ~moments[m].is_visible /\ moments[m].expires_at < now

SweepRunning == sweep.pc \in {"moments", "dreams", "commit"}

OnlyCommitWrites == (sweep' # sweep /\ ~SweepCommitted) => UNCHANGED <<dreams, moments>>

FailureReported ==
    (SweepRunning /\ sweep'.pc = "done" /\ ~SweepCommitted)
        => /\ sweep'.status = "error"
           /\ sweep'.hidden_moments = 0 /\ sweep'.hidden_dreams = 0

(* C36: no step of the sweep before its successful commit changes a row  *)
(* of either kind, and a run that ends without that commit ends with the  *)
(* error raised to its caller and nothing reported hidden.                *)
C36_SweepAllOrNothing == [][OnlyCommitWrites /\ FailureReported]_vars

(* A sweep failed after it had selected rows of both kinds; they are     *)
(* still visible.                                                         *)
C36_Witness ==
    /\ sweep.pc = "done" /\ sweep.status = "error"
    /\ VisibleDue(moments, now) # {} /\ VisibleDue(dreams, now) # {}

----------------------------------------------------------------------------
(* Properties of GET by id *)

GetDreamOrder ==
    \A r \in Reqs :
        Arrived(r, "get_dream") =>
            LET id == req'[r].id IN
            IF id \notin DOMAIN dreams THEN Replied(r, 404)
            ELSE IF dreams[id].expires_at <= now THEN Replied(r, 410)
            ELSE IF ~dreams[id].is_public THEN Replied(r, 403) /\ dreams' = dreams
            ELSE req'[r].pc = "commit"

(* C40: GET by id of a dream answers 404 without a row, else 410 when    *)
(* the row is expired, else 403 when it is private, whoever asks, its     *)
(* owner included, and the 403 writes nothing.                            *)
C40_PrivateDenied == [][GetDreamOrder]_vars

(* The owner was answered 403 for their own private, unexpired dream,    *)
(* whose view counter is still zero.                                      *)
C40_Witness ==
    \E r \in Reqs :
        /\ req[r].pc = "done" /\ req[r].op = "get_dream" /\ req[r].status = 403
        /\ req[r].id \in DOMAIN dreams
        /\ dreams[req[r].id].user_id = req[r].user
        /\ dreams[req[r].id].expires_at > now
        /\ dreams[req[r].id].view_count = 0

Served(op, id) ==
    {r \in Reqs : req[r].pc = "done" /\ req[r].op = op /\ req[r].status = 200 /\ req[r].id = id}

(* C35: the view counter of a dream or moment equals the number of GETs *)
(* by id of it that were answered 200, however their reads and writes    *)
(* interleave; rows start at zero, so this is the increase by exactly k.  *)
C35_ViewsCounted ==
    /\ \A id \in DOMAIN dreams : dreams[id].view_count = Cardinality(Served("get_dream", id))
    /\ \A id \in DOMAIN moments : moments[id].view_count = Cardinality(Served("get_moment", id))

----------------------------------------------------------------------------
(* Further properties of the fan-out *)

FailedBefore(e) ==
    /\ e \in Range(channel)
    /\ \E s \in Sockets : \E e0 \in sockets[s].failed : e0 < e

BroadcastToAll(e) ==
    /\ BroadcastOver(e)
    /\ \A s \in fan.at_broadcast[e] :
          Tried(s, e) /\ (sockets[s].state = "open" => Got(s, e))

(* C37 (SpecFanoutUp): once a send of an earlier event has raised, every *)
(* event published after that event is still taken by the listener and    *)
(* its broadcast runs to its end: every connection of the live set at     *)
(* its start is sent the event, and those still open have it.             *)
C37_ListenerSurvives == \A e \in Events : FailedBefore(e) ~> BroadcastToAll(e)

(* The send of the first event to one connection raised; the second      *)
(* event reached the other connection and the listener is listening.      *)
C37_Witness ==
    \E s1, s2 \in Sockets, e1, e2 \in Events :
        /\ e1 < e2 /\ e1 \in sockets[s1].failed
        /\ BroadcastOver(e2) /\ Got(s2, e2)
        /\ listener.pc = "listen"

Position(e) == CHOOSE i \in DOMAIN channel : channel[i] = e

InPublishOrder(log) ==
    /\ \A i \in DOMAIN log : log[i] \in Range(channel)
    /\ \A i, j \in DOMAIN log : i < j => Position(log[i]) < Position(log[j])

(* C38 (SpecFanout): what a connection has received is a subsequence of  *)
(* the channel: the events come in the order of their publishes and none  *)
(* comes twice, whatever publishes, connects, stalls and disconnects      *)
(* happen in between.                                                     *)
C38_OrderedOnce == \A s \in Sockets : InPublishOrder(sockets[s].received)

(* A connection that has received two events. *)
C38_Witness == \E s \in Sockets : Len(sockets[s].received) >= 2

----------------------------------------------------------------------------
(* POST /api/auth/login (auth.py 78-155), one step per await.  Every      *)
(* attempt is for the one account of the model, or for an unknown email.  *)

(* auth.py 123 and 124: the failures that lock, and for how long. *)
LOCKOUT_ATTEMPTS == 5
LOCKOUT_SECONDS == 900

LoginMaxFailures == 6

(* auth.py 104: user.locked_until and user.locked_until > now *)
Locked(u, t) == u.locked_until # <<>> /\ u.locked_until[1] > t

LoginDone(code) == [LoginIdle EXCEPT !.pc = "done", !.status = code]
LoginAt(pc) ==
    [LoginIdle EXCEPT !.pc = pc,
                      !.failed_login_attempts = account.failed_login_attempts,
                      !.locked_until = account.locked_until]

LoginKeeps ==
    UNCHANGED <<now, aiEnabled, dreams, moments, nextId, req, tasks, channel, sweep,
                sc, manager, listener, sockets, moderation, worker, momentTtl>>

(* auth.py 90-146: the SELECT and the checks up to the first write. *)
LoginLoad(r, known, correct) ==
    /\ login[r].pc = "idle"
    /\ login' = [login EXCEPT ![r] =
                   IF ~known THEN [LoginDone(401) EXCEPT !.known = FALSE]
                   ELSE IF Locked(account, now) THEN LoginDone(403)
                   ELSE IF ~correct THEN LoginAt("increment")
                   ELSE IF ~account.is_active THEN LoginDone(400)
                   ELSE IF account.failed_login_attempts > 0 THEN LoginAt("reset")
                   ELSE LoginDone(200)]
    /\ UNCHANGED account
    /\ LoginKeeps

(* auth.py 113-118: UPDATE ... failed_login_attempts + 1, and the commit. *)
LoginIncrement(r) ==
    /\ login[r].pc = "increment"
    /\ account' = [account EXCEPT !.failed_login_attempts = @ + 1]
    /\ login' = [login EXCEPT ![r].pc = "refresh"]
    /\ LoginKeeps

(* auth.py 120-123 and 128-132: the refresh; below the threshold the     *)
(* answer is 401 at once.                                                 *)
LoginRefresh(r) ==
    /\ login[r].pc = "refresh"
    /\ login' = [login EXCEPT ![r] =
                   IF account.failed_login_attempts >= LOCKOUT_ATTEMPTS
                   THEN LoginAt("lock")
                   ELSE LoginDone(401)]
    /\ UNCHANGED account
    /\ LoginKeeps

(* auth.py 124-132: the lock is written and committed, then 401. *)
LoginLock(r) ==
    /\ login[r].pc = "lock"
    /\ account' = [account EXCEPT !.locked_until = <<now + LOCKOUT_SECONDS>>]
    /\ login' = [login EXCEPT ![r] = LoginDone(401)]
    /\ LoginKeeps

(* auth.py 141-145: the counter and the lock are assigned on the loaded  *)
(* object and committed; the UPDATE carries the attributes whose value    *)
(* differs from the one loaded.                                           *)
LoginReset(r) ==
    /\ login[r].pc = "reset"
    /\ account' = [account EXCEPT
                     !.failed_login_attempts = 0,
                     !.locked_until = IF login[r].locked_until # <<>>
                                      THEN <<>> ELSE @]
    /\ login' = [login EXCEPT ![r] = LoginDone(200)]
    /\ LoginKeeps

LoginReturn(r) ==
    /\ login[r].pc = "done"
    /\ login' = [login EXCEPT ![r] = LoginIdle]
    /\ UNCHANGED account
    /\ LoginKeeps

LoginTimes == {0, LOCKOUT_SECONDS, 2 * LOCKOUT_SECONDS}
LoginCanFail == account.failed_login_attempts < LoginMaxFailures

InitLogin ==
    /\ EmptyTables
    /\ momentTtl = MOMENT_TTL_SECONDS
    /\ account \in {[NewUser EXCEPT !.is_active = a] : a \in BOOLEAN}
    /\ aiEnabled = FALSE
    /\ sc = ScIdle

LoginNext ==
    \/ Tick(LoginTimes) /\ NoHistory
    \/ /\ \E r \in Reqs, known \in BOOLEAN, correct \in BOOLEAN :
             /\ correct \/ LoginCanFail
             /\ LoginLoad(r, known, correct)
       /\ NoHistory
    \/ (\E r \in Reqs : LoginIncrement(r)) /\ NoHistory
    \/ (\E r \in Reqs : LoginRefresh(r)) /\ NoHistory
    \/ (\E r \in Reqs : LoginLock(r)) /\ NoHistory
    \/ (\E r \in Reqs : LoginReset(r)) /\ NoHistory
    \/ (\E r \in Reqs : LoginReturn(r)) /\ NoHistory

SpecLogin == InitLogin /\ [][LoginNext]_vars

----------------------------------------------------------------------------
(* Properties of the login protection *)

LoginArrives(r) == login[r].pc = "idle" /\ login'[r].pc # "idle"
LoginAnswers(r, code) ==
    login[r].pc # "done" /\ login'[r].pc = "done" /\ login'[r].status = code

Failing == {r \in Reqs : login[r].pc \in {"refresh", "lock"}}

LockedAfterFive ==
    (account.failed_login_attempts >= LOCKOUT_ATTEMPTS /\ Failing = {})
        => account.locked_until # <<>>

LockLasts ==
    \A r \in Reqs :
        (login[r].pc = "lock" /\ login'[r].pc = "done")
            => account'.locked_until = <<now + LOCKOUT_SECONDS>>

LockedIsRefused ==
    \A r \in Reqs :
        (LoginArrives(r) /\ Locked(account, now) /\ login'[r].known)
            => LoginAnswers(r, 403) /\ account' = account

SuccessClears ==
    \A r \in Reqs :
        LoginAnswers(r, 200)
            => /\ account'.failed_login_attempts = 0
               /\ ~Locked(account', now')

(* C39 (SpecLogin): once the counter has reached 5 and the failed        *)
(* attempts have been answered the account carries a lock, written as     *)
(* now + 15 minutes; an attempt that arrives while the lock is running is *)
(* answered 403 whatever its password and leaves the row as it is; and    *)
(* after the step that answers a login with success the counter is 0 and  *)
(* the account is not locked.                                             *)
C39_LoginProtection ==
    [](LockedAfterFive) /\ [][LockLasts /\ LockedIsRefused /\ SuccessClears]_vars

====
